---------------------------- MODULE Spec2Model ----------------------------
(***************************************************************************)
(* NeuroDrive_Vision: the drowsiness event counter                         *)
(* (src/neurodrive_vision/contador_eventos.py, ContadorEventosSomnolencia) *)
(* as a state machine.  The action Actualizar is one call of              *)
(* actualizar(timestamp, medidas): dt, then the eye, mouth and head        *)
(* updates in that order, then the attention estimate.  RegistrarEstimulo  *)
(* and RegistrarRespuesta are the two calls of the stimulus channel.       *)
(*                                                                         *)
(* Numbers.  The program computes with floats; the model computes with     *)
(* integers on fixed grids, every program constant being a whole number of *)
(* grid steps:                                                             *)
(*   time      1 unit = 0.05 s    (0.10 s = 2, 0.25 s = 5, 0.40 s = 8,     *)
(*                                 1.0 s = 20, 8.0 s = 160)                *)
(*   EAR       1 unit = 0.02      (0.18 = 9, 0.20 = 10, 0.22 = 11)         *)
(*   MAR       1 unit = 0.1       (0.6 = 6)                                *)
(*   height    1 unit = 0.000001  (0.10 = 100000), fraction of frame height*)
(*   level     1 unit = 0.1       (0.2 = 2, 0.5 = 5, 0.8 = 8, 0.9 = 9)     *)
(* A product or a quotient that leaves the grid is rounded to the nearest  *)
(* grid value, ties to even, as the float operations round.                *)
(*                                                                         *)
(* An Optional[float] is <<>> (None) or <<x>>.                             *)
(***************************************************************************)
EXTENDS Integers, Sequences, FiniteSets

None == <<>>
Some(x) == <<x>>
Val(o) == o[1]

Max(a, b) == IF a >= b THEN a ELSE b

\* floor(n / d + 1/2) with ties to even, for d > 0
RoundDiv(n, d) ==
    LET q == n \div d
        r == n % d
    IN  IF 2 * r < d THEN q
        ELSE IF 2 * r > d THEN q + 1
        ELSE IF q % 2 = 0 THEN q ELSE q + 1

RECURSIVE SumSeq(_)
SumSeq(s) == IF s = <<>> THEN 0 ELSE Head(s) + SumSeq(Tail(s))

(***************************************************************************)
(* Program constants (ContadorEventosSomnolencia.__init__ defaults)        *)
(***************************************************************************)
UMBRAL_EAR_CERRADO == 10
DUR_MIN_PARPADEO == 2
DUR_MAX_PARPADEO == 8
DUR_MIN_MICROSUENO == 20
UMBRAL_MAR_BOSTEZO == 6
DUR_MIN_BOSTEZO == 20
INTERPARPADEO_ATENCION_BAJA == 160
MAX_FRAMES_SIN_DETECCION == 5   \* DetectorRostroMediaPipe.__init__ default
MAX_REINTENTOS == 3             \* CapturadorVideo.MAX_REINTENTOS
VENTANA_INTERPARPADEOS_SEG == 1200  \* 60 s; stored by __init__, read nowhere
DUR_MIN_CABECEO == 20
UMBRAL_EAR_CERRAR == 9
UMBRAL_EAR_ABRIR == 11
TIEMPO_REFRACTARIO_PARPADEO == 5
MAX_HISTORIAL == 100
\* largest length of the response latency history
MAX_LATENCIAS == 50
UMBRAL_DELTA == 100000
\* alpha_ear = 0.5 = ALPHA_EAR_NUM / ALPHA_EAR_DEN
ALPHA_EAR_NUM == 1
ALPHA_EAR_DEN == 2
\* alpha_base = 0.005 = ALPHA_BASE_NUM / ALPHA_BASE_DEN
ALPHA_BASE_NUM == 5
ALPHA_BASE_DEN == 1000

NIVEL_BAJA == 2
NIVEL_MEDIA_LARGO == 5
NIVEL_MEDIA_POCAS == 8
NIVEL_ALTA == 9

(***************************************************************************)
(* Bounds of the model                                                     *)
(***************************************************************************)
\* largest timestamp fed to one tracker (SpecOjos, SpecBoca, SpecCabeza, Spec)
MaxTime == 20
\* largest timestamp fed in SpecAtencion, whose steps are seconds long
MaxTimeLargo == 540
\* cap of the duration accumulators (time units)
MaxDur == 20
\* cap of each cumulative counter where two events of a kind are enough
MaxConteo == 2
\* cap of each cumulative counter in SpecAtencion (three inter-blink intervals)
MaxConteoLargo == 4
\* longest run of calls in Spec
MaxLlamadas == 5
\* longest run of calls in SpecAtencion
MaxLlamadasLargo == 11
\* blinks of the steady rhythm that opens every run of SpecHistorial
Calentamiento == 99
\* calls of a run of SpecHistorial that follow the steady rhythm
MaxLlamadasLibres == 8
\* longest run of calls in SpecCabeza
MaxLlamadasCabeza == 6
\* frames of a constant head reading in SpecDeriva
MaxFramesDeriva == 1000
\* longest run of calls in SpecIndependencia
MaxLlamadasIndependencia == 4
\* longest run of calls in SpecContrato
MaxLlamadasContrato == 4
\* longest run of calls of actualizar in SpecEstimulos
MaxLlamadasEstimulos == 4
\* most responses recorded in a run of SpecEstimulos
MaxRespuestas == 2

VARIABLES
    contador,   \* the fields of the ContadorEventosSomnolencia object
    salida,     \* the SalidaEventos returned by the last call, None before it
    traza,      \* observer: input, dt and previous eye state of the last call,
                \* calls seen per event flag
    llamadas,   \* calls made, counted where the run's length is bounded
    previa,     \* observer: input and result of the call before the last
                \* one, kept where repeated frames are studied (Spec)
    muestras,   \* observer: the smallest and the largest raw EAR among the
                \* valid eye readings seen so far, None before the first,
                \* kept where the EAR filter is studied (SpecFiltro); the
                \* closed run measured from the frames, kept where closed
                \* runs are studied (SpecCorridas); the time between calls
                \* added up and the range of the timestamps, kept where
                \* timestamps go back (SpecDesorden)
    medicion,   \* the last call of CalculadorMedidasRostro.calcular_medidas:
                \* its argument and the MedidasRostro it returned
    capturador, \* the fields of the CapturadorVideo object, and in `ultima'
                \* what its last call did: the method, whether it raised
                \* ErrorCapturaVideo, the attempts to open the source and
                \* the handles released, the ok of leer_frame, and what
                \* the source did on each attempt
    detector,   \* the fields of the DetectorRostroMediaPipe object, and in
                \* `ultima' the last method called, the frame given to the
                \* last procesar_frame and the DatosRostro it returned, and
                \* the frames without a face seen since the last one with
                \* a face
    sombra      \* a second counter object, with its last result, kept where
                \* two runs are compared: it receives the calls of
                \* actualizar and no stimulus or response call
                \* (SpecEstimulos), or calls of actualizar with the same
                \* timestamps and other measurements (SpecIndependencia);
                \* coinciden is the set of channels on which the
                \* measurements of the two objects have agreed on every call

vars == <<contador, salida, traza, llamadas, previa, muestras, medicion,
          capturador, detector, sombra>>

(***************************************************************************)
(* Data structures                                                         *)
(***************************************************************************)
EstadoOjosInicial ==
    [estado |-> "desconocido", duracion_estado |-> 0, ear_actual |-> None]

EventosSomnolencia ==
    [parpadeo |-> FALSE, microsueno |-> FALSE, bostezo |-> FALSE, cabeceo |-> FALSE]

AtencionConductor(nivel, categoria, motivo) ==
    [nivel |-> nivel, categoria |-> categoria, motivo |-> motivo]

MedidasOjos(valido, ear) == [valido |-> valido, ear_promedio |-> ear]
MedidasBoca(valido, mar) == [valido |-> valido, mar |-> mar]
MedidasCabeza(valido, nariz, menton) ==
    [valido |-> valido, altura_relativa_nariz |-> nariz,
     altura_relativa_menton |-> menton]

MedidasRostro(ojos, boca, cabeza, presente) ==
    [medidas_ojos |-> ojos, medidas_boca |-> boca, medidas_cabeza |-> cabeza,
     rostro_presente |-> presente]

\* no call of calcular_medidas yet
MedicionInicial == [datos_rostro |-> None, medidas |-> None]

\* CapturadorVideo.__init__: no capture handle, no frame read or failed
CapturadorInicial ==
    [captura |-> None, frames_leidos |-> 0, frames_fallidos |-> 0,
     ultima |-> [operacion |-> "ninguna", excepcion |-> FALSE, intentos |-> 0,
                 liberadas |-> 0, ok |-> FALSE, fuente |-> <<>>]]

\* MetricasDetector(), without the timing fields
MetricasDetector ==
    [frames_procesados |-> 0, frames_con_rostro |-> 0, frames_sin_rostro |-> 0,
     errores_procesamiento |-> 0]

\* DetectorRostroMediaPipe.__init__
ConstruirDetector(habilitar_cache, max_frames_sin_deteccion) ==
    [habilitar_cache |-> habilitar_cache,
     max_frames_sin_deteccion |-> max_frames_sin_deteccion,
     ultimo_resultado |-> None,
     frames_consecutivos_sin_rostro |-> 0,
     metricas |-> MetricasDetector,
     ultima |-> [operacion |-> "ninguna", frame |-> None, resultado |-> None,
                 fallos_seguidos |-> 0]]

DetectorInicial == ConstruirDetector(TRUE, MAX_FRAMES_SIN_DETECCION)

\* __init__ with the nominal closed threshold given; the other parameters
\* keep their defaults
Construir(umbral_ear_cerrado) ==
    [umbral_ear_cerrado |-> umbral_ear_cerrado,
     ultimo_timestamp |-> None,
     estado_ojos |-> EstadoOjosInicial,
     conteo_parpadeos_total |-> 0,
     conteo_microsuenos_total |-> 0,
     ultimo_parpadeo_timestamp |-> None,
     historial_interparpadeos |-> <<>>,
     ear_filtrado |-> None,
     boca_abierta |-> FALSE,
     tiempo_boca_abierta |-> 0,
     conteo_bostezos_total |-> 0,
     cabeceo_activo |-> FALSE,
     tiempo_cabeza_abajo |-> 0,
     conteo_cabeceos_total |-> 0,
     baseline_altura_nariz |-> None,
     baseline_altura_menton |-> None,
     ultimo_estimulo |-> None,
     ultimo_tiempo_respuesta |-> None,
     latencias_respuesta |-> <<>>]

ContadorInicial == Construir(UMBRAL_EAR_CERRADO)

(***************************************************************************)
(* actualizar: dt                                                          *)
(***************************************************************************)
\* faulty variant: the difference is not clamped at 0
CalcularDt_SinClamp(c, timestamp) ==
    IF c.ultimo_timestamp = None
    THEN 0
    ELSE timestamp - Val(c.ultimo_timestamp)

\* faulty variant: a gap between calls counts for 0.5 s at most
CalcularDt_ConTope(c, timestamp) ==
    IF c.ultimo_timestamp = None
    THEN 0
    ELSE -Max(-10, -Max(0, timestamp - Val(c.ultimo_timestamp)))

CalcularDt(c, timestamp) ==
    IF c.ultimo_timestamp = None
    THEN 0
    ELSE Max(0, timestamp - Val(c.ultimo_timestamp))

(***************************************************************************)
(* _actualizar_ojos_y_eventos                                              *)
(***************************************************************************)
\* faulty variant: "ear_promedio or 0.0", a missing reading counts as EAR 0
EarCrudo_ComoCero(medidas) ==
    IF medidas.medidas_ojos.valido /\ medidas.medidas_ojos.ear_promedio # None
    THEN medidas.medidas_ojos.ear_promedio
    ELSE Some(0)

EarCrudo(medidas) ==
    IF medidas.medidas_ojos.valido THEN medidas.medidas_ojos.ear_promedio ELSE None

\* faulty variant: no smoothing, the filter follows the raw sample
SuavizarEar_SinSuavizar(ear_filtrado, ear_crudo) == ear_crudo

SuavizarEar(ear_filtrado, ear_crudo) ==
    IF ear_filtrado = None
    THEN ear_crudo
    ELSE RoundDiv(ALPHA_EAR_NUM * ear_filtrado[1]
                    + (ALPHA_EAR_DEN - ALPHA_EAR_NUM) * ear_crudo,
                  ALPHA_EAR_DEN)

\* faulty variant: one threshold, the nominal umbral_ear_cerrado, in both directions
NuevoEstado_SinHisteresis(estado_actual, ear) ==
    IF ear < UMBRAL_EAR_CERRADO THEN "cerrado" ELSE "abierto"

NuevoEstado(estado_actual, ear) ==
    IF estado_actual \in {"desconocido", "abierto"}
    THEN IF ear < UMBRAL_EAR_CERRAR THEN "cerrado" ELSE "abierto"
    ELSE IF ear > UMBRAL_EAR_ABRIR THEN "abierto" ELSE "cerrado"

\* faulty variant: closed is decided by the object's nominal threshold
ClasificarOjo_UmbralNominal(c, ear) ==
    IF ear < c.umbral_ear_cerrado THEN "cerrado" ELSE "abierto"

\* lines 271-285: the new state from the state the object is in
ClasificarOjo(c, ear) == NuevoEstado(c.estado_ojos.estado, ear)

\* faulty variant: no upper limit on a blink's duration
EnRangoParpadeo_SinMaximo(dur_anterior) == DUR_MIN_PARPADEO <= dur_anterior

EnRangoParpadeo(dur_anterior) ==
    DUR_MIN_PARPADEO <= dur_anterior /\ dur_anterior <= DUR_MAX_PARPADEO

\* faulty variant: no refractory period
RefractarioCumplido_Siempre(c) == TRUE

RefractarioCumplido(c) ==
    \/ c.ultimo_parpadeo_timestamp = None
    \/ Val(c.ultimo_timestamp) - Val(c.ultimo_parpadeo_timestamp)
         >= TIEMPO_REFRACTARIO_PARPADEO

\* faulty variant: a run of exactly dur_min_microsueno is not a microsleep
EnRangoMicrosueno_Estricto(dur_anterior) == dur_anterior > DUR_MIN_MICROSUENO

EnRangoMicrosueno(dur_anterior) == dur_anterior >= DUR_MIN_MICROSUENO

\* faulty variant: pop() instead of pop(0), the newest entry is the one dropped
AgregarInterparpadeo_QuitaUltimo(historial, valor) ==
    LET h == Append(historial, valor)
    IN  IF Len(h) > MAX_HISTORIAL THEN SubSeq(h, 1, MAX_HISTORIAL) ELSE h

\* _agregar_interparpadeo, lines 320-325
AgregarInterparpadeo(historial, valor) ==
    LET h == Append(historial, valor)
    IN  IF Len(h) > MAX_HISTORIAL THEN Tail(h) ELSE h

\* faulty variant: the first blink stores an interval too
RegistrarParpadeo_AgregaSiempre(c) ==
    [c EXCEPT
        !.conteo_parpadeos_total = @ + 1,
        !.historial_interparpadeos =
            IF c.ultimo_parpadeo_timestamp # None
            THEN AgregarInterparpadeo(@,
                    Max(0, Val(c.ultimo_timestamp) - Val(c.ultimo_parpadeo_timestamp)))
            ELSE AgregarInterparpadeo(@, 0),
        !.ultimo_parpadeo_timestamp = c.ultimo_timestamp]

\* faulty variant: the interval is measured only after the last-blink
\* timestamp has been moved to the current call, so that it is always 0
RegistrarParpadeo_MarcaAntes(c) ==
    [c EXCEPT
        !.conteo_parpadeos_total = @ + 1,
        !.historial_interparpadeos =
            IF c.ultimo_parpadeo_timestamp # None
            THEN AgregarInterparpadeo(@, 0)
            ELSE @,
        !.ultimo_parpadeo_timestamp = c.ultimo_timestamp]

\* faulty variant: the blink counter is not incremented
RegistrarParpadeo_SinContar(c) ==
    [c EXCEPT
        !.historial_interparpadeos =
            IF c.ultimo_parpadeo_timestamp # None
            THEN AgregarInterparpadeo(@,
                    Max(0, Val(c.ultimo_timestamp) - Val(c.ultimo_parpadeo_timestamp)))
            ELSE @,
        !.ultimo_parpadeo_timestamp = c.ultimo_timestamp]

\* the blink branch, lines 304-309
RegistrarParpadeo(c) ==
    [c EXCEPT
        !.conteo_parpadeos_total = @ + 1,
        !.historial_interparpadeos =
            IF c.ultimo_parpadeo_timestamp # None
            THEN AgregarInterparpadeo(@,
                    Max(0, Val(c.ultimo_timestamp) - Val(c.ultimo_parpadeo_timestamp)))
            ELSE @,
        !.ultimo_parpadeo_timestamp = c.ultimo_timestamp]

\* faulty variant: the new state starts with duration 0, the time of the
\* current tick is dropped
CambiarEstado_DuracionCero(c, dt, nuevo_estado, eventos) ==
    LET dur_anterior == c.estado_ojos.duracion_estado
        estado_anterior == c.estado_ojos.estado
        hay_parpadeo == /\ estado_anterior = "cerrado"
                        /\ EnRangoParpadeo(dur_anterior)
                        /\ RefractarioCumplido(c)
        hay_microsueno == /\ estado_anterior = "cerrado"
                          /\ ~EnRangoParpadeo(dur_anterior)
                          /\ EnRangoMicrosueno(dur_anterior)
        c1 == IF hay_parpadeo THEN RegistrarParpadeo(c)
              ELSE IF hay_microsueno
                   THEN [c EXCEPT !.conteo_microsuenos_total = @ + 1]
                   ELSE c
        ev1 == [eventos EXCEPT !.parpadeo = @ \/ hay_parpadeo,
                               !.microsueno = @ \/ hay_microsueno]
    IN  <<[c1 EXCEPT !.estado_ojos.estado = nuevo_estado,
                     !.estado_ojos.duracion_estado = 0],
          ev1>>

\* a state change: the run that just ended is evaluated, lines 292-317.
\* The result is <<contador, eventos>>.
CambiarEstado(c, dt, nuevo_estado, eventos) ==
    LET dur_anterior == c.estado_ojos.duracion_estado
        estado_anterior == c.estado_ojos.estado
        hay_parpadeo == /\ estado_anterior = "cerrado"
                        /\ EnRangoParpadeo(dur_anterior)
                        /\ RefractarioCumplido(c)
        hay_microsueno == /\ estado_anterior = "cerrado"
                          /\ ~EnRangoParpadeo(dur_anterior)
                          /\ EnRangoMicrosueno(dur_anterior)
        c1 == IF hay_parpadeo THEN RegistrarParpadeo(c)
              ELSE IF hay_microsueno
                   THEN [c EXCEPT !.conteo_microsuenos_total = @ + 1]
                   ELSE c
        ev1 == [eventos EXCEPT !.parpadeo = @ \/ hay_parpadeo,
                               !.microsueno = @ \/ hay_microsueno]
    IN  <<[c1 EXCEPT !.estado_ojos.estado = nuevo_estado,
                     !.estado_ojos.duracion_estado = dt],
          ev1>>

\* faulty variant: a frame without a reading leaves the eye state as it was
OjosDesconocidos_ConservaEstado(c) == [c EXCEPT !.estado_ojos.ear_actual = None]

\* lines 253-257: no reliable reading
OjosDesconocidos(c) ==
    [c EXCEPT !.estado_ojos.estado = "desconocido",
              !.estado_ojos.ear_actual = None]

ActualizarOjosYEventos(c, dt, medidas, eventos) ==
    LET ear_crudo == EarCrudo(medidas)
    IN  IF ear_crudo = None
        THEN <<OjosDesconocidos(c), eventos>>
        ELSE LET ear == SuavizarEar(c.ear_filtrado, Val(ear_crudo))
                 c0 == [c EXCEPT !.ear_filtrado = Some(ear),
                                 !.estado_ojos.ear_actual = Some(ear)]
                 estado_actual == c.estado_ojos.estado
                 nuevo_estado == ClasificarOjo(c, ear)
             IN  IF estado_actual = nuevo_estado
                 THEN <<[c0 EXCEPT !.estado_ojos.duracion_estado = @ + dt],
                        eventos>>
                 ELSE CambiarEstado(c0, dt, nuevo_estado, eventos)

(***************************************************************************)
(* _actualizar_boca                                                        *)
(***************************************************************************)
BocaSinDatos(medidas) ==
    ~medidas.medidas_boca.valido \/ medidas.medidas_boca.mar = None

BocaAbiertaAhora(mar) == mar >= UMBRAL_MAR_BOSTEZO

\* faulty variant: the duration tested is that of the eye state
EsBostezo_UsaDuracionOjos(c) ==
    c.boca_abierta /\ c.estado_ojos.duracion_estado >= DUR_MIN_BOSTEZO

\* faulty variant: an open run of exactly dur_min_bostezo is not a yawn
EsBostezo_Estricto(c) == c.boca_abierta /\ c.tiempo_boca_abierta > DUR_MIN_BOSTEZO

EsBostezo(c) == c.boca_abierta /\ c.tiempo_boca_abierta >= DUR_MIN_BOSTEZO

\* faulty variant: a frame without mouth data is taken for a closed mouth
\* and the open run is reset
BocaSinLectura_Reinicia(c) ==
    [c EXCEPT !.boca_abierta = FALSE, !.tiempo_boca_abierta = 0]

\* faulty variant: a frame without mouth data ends the open run and a long
\* enough one is counted as a yawn
BocaSinLectura_CuentaBostezo(c) ==
    [c EXCEPT !.conteo_bostezos_total = IF EsBostezo(c) THEN @ + 1 ELSE @,
              !.boca_abierta = FALSE,
              !.tiempo_boca_abierta = 0]

\* lines 335-337: the early return, the object is left as it is
BocaSinLectura(c) == c

ActualizarBoca(c, dt, medidas, eventos) ==
    IF BocaSinDatos(medidas)
    THEN <<BocaSinLectura(c), eventos>>
    ELSE IF BocaAbiertaAhora(Val(medidas.medidas_boca.mar))
         THEN <<[c EXCEPT !.tiempo_boca_abierta = @ + dt,
                          !.boca_abierta = TRUE],
                eventos>>
         ELSE <<[c EXCEPT !.conteo_bostezos_total =
                              IF EsBostezo(c) THEN @ + 1 ELSE @,
                          !.boca_abierta = FALSE,
                          !.tiempo_boca_abierta = 0],
                [eventos EXCEPT !.bostezo = @ \/ EsBostezo(c)]>>

(***************************************************************************)
(* _actualizar_cabeza                                                      *)
(***************************************************************************)
\* "x or 0.0": None and 0.0 both give 0.0
OrCero(o) == IF o = None THEN 0 ELSE Val(o)

\* faulty variant: only the nose baseline is stored
InicializarBaseline_SoloNariz(c, altura_nariz, altura_menton) ==
    [c EXCEPT !.baseline_altura_nariz = Some(altura_nariz)]

\* lines 369-373: the first valid sample becomes the baseline
InicializarBaseline(c, altura_nariz, altura_menton) ==
    [c EXCEPT !.baseline_altura_nariz = Some(altura_nariz),
              !.baseline_altura_menton = Some(altura_menton)]

\* faulty variant: the baseline is never adapted
AdaptarBaseline_SinAdaptar(baseline, altura) == baseline

\* (1 - alpha_base) * baseline + alpha_base * altura
AdaptarBaseline(baseline, altura) ==
    RoundDiv((ALPHA_BASE_DEN - ALPHA_BASE_NUM) * baseline + ALPHA_BASE_NUM * altura,
             ALPHA_BASE_DEN)

\* faulty variant: the baseline drifts during an active nod as well
DerivarBaseline_TambienActivo(c, altura_nariz, altura_menton) ==
    [c EXCEPT !.baseline_altura_nariz = Some(AdaptarBaseline(Val(@), altura_nariz)),
              !.baseline_altura_menton = Some(AdaptarBaseline(Val(@), altura_menton))]

\* lines 381-388: slow adaptation, only outside an active nod
DerivarBaseline(c, altura_nariz, altura_menton) ==
    IF ~c.cabeceo_activo
    THEN [c EXCEPT
            !.baseline_altura_nariz = Some(AdaptarBaseline(Val(@), altura_nariz)),
            !.baseline_altura_menton = Some(AdaptarBaseline(Val(@), altura_menton))]
    ELSE c

CabezaAbajoAhora(delta_nariz, delta_menton) ==
    delta_nariz > UMBRAL_DELTA /\ delta_menton > UMBRAL_DELTA

\* faulty variant: the active flag is not consulted
ConfirmaCabeceo_SinActivo(tiempo_cabeza_abajo, cabeceo_activo) ==
    tiempo_cabeza_abajo >= DUR_MIN_CABECEO

\* line 396: the nod is confirmed, with the timer already advanced
ConfirmaCabeceo(tiempo_cabeza_abajo, cabeceo_activo) ==
    tiempo_cabeza_abajo >= DUR_MIN_CABECEO /\ ~cabeceo_activo

\* faulty variant: a frame without head data ends the head-down run
CabezaSinLectura_Reinicia(c) ==
    [c EXCEPT !.tiempo_cabeza_abajo = 0, !.cabeceo_activo = FALSE]

\* lines 362-363: the early return, the object is left as it is
CabezaSinLectura(c) == c

\* faulty variant: the timer is reset but the active flag is kept
CabezaLevantada_ConservaActivo(c) == [c EXCEPT !.tiempo_cabeza_abajo = 0]

\* lines 400-402: the head is not down
CabezaLevantada(c) ==
    [c EXCEPT !.tiempo_cabeza_abajo = 0, !.cabeceo_activo = FALSE]

ActualizarCabeza(c, dt, medidas, eventos) ==
    IF ~medidas.medidas_cabeza.valido
    THEN <<CabezaSinLectura(c), eventos>>
    ELSE
    LET altura_nariz == OrCero(medidas.medidas_cabeza.altura_relativa_nariz)
        altura_menton == OrCero(medidas.medidas_cabeza.altura_relativa_menton)
    IN  IF c.baseline_altura_nariz = None \/ c.baseline_altura_menton = None
        THEN <<InicializarBaseline(c, altura_nariz, altura_menton), eventos>>
        ELSE
        LET delta_nariz == altura_nariz - Val(c.baseline_altura_nariz)
            delta_menton == altura_menton - Val(c.baseline_altura_menton)
            c0 == DerivarBaseline(c, altura_nariz, altura_menton)
        IN  IF CabezaAbajoAhora(delta_nariz, delta_menton)
            THEN LET t == c0.tiempo_cabeza_abajo + dt
                     hay_cabeceo == ConfirmaCabeceo(t, c0.cabeceo_activo)
                 IN  <<[c0 EXCEPT !.tiempo_cabeza_abajo = t,
                                  !.cabeceo_activo = @ \/ hay_cabeceo,
                                  !.conteo_cabeceos_total =
                                      IF hay_cabeceo THEN @ + 1 ELSE @],
                       [eventos EXCEPT !.cabeceo = @ \/ hay_cabeceo]>>
            ELSE <<CabezaLevantada(c0), eventos>>

(***************************************************************************)
(* _estimar_atencion                                                       *)
(***************************************************************************)
\* faulty variant: the sum is not divided by the number of samples
PromedioLargo_SinDividir(historial) ==
    SumSeq(historial) > INTERPARPADEO_ATENCION_BAJA

\* promedio_inter > interparpadeo_atencion_baja, for a non-empty history
PromedioLargo(historial) ==
    SumSeq(historial) > INTERPARPADEO_ATENCION_BAJA * Len(historial)

\* faulty variant: the blink pattern is looked at before the microsleep counter
EstimarAtencion_OrdenInvertido(c) ==
    IF Len(c.historial_interparpadeos) >= 3
    THEN IF PromedioLargo(c.historial_interparpadeos)
         THEN AtencionConductor(NIVEL_MEDIA_LARGO, "media",
                                "inter-parpadeo promedio largo")
         ELSE AtencionConductor(NIVEL_ALTA, "alta",
                                "patron de parpadeo en rango esperado")
    ELSE IF c.conteo_microsuenos_total > 0
         THEN AtencionConductor(NIVEL_BAJA, "baja", "microsuenos detectados")
         ELSE AtencionConductor(NIVEL_MEDIA_POCAS, "media",
                                "pocas muestras de parpadeo")

EstimarAtencion(c) ==
    IF c.conteo_microsuenos_total > 0
    THEN AtencionConductor(NIVEL_BAJA, "baja", "microsuenos detectados")
    ELSE IF Len(c.historial_interparpadeos) >= 3
         THEN IF PromedioLargo(c.historial_interparpadeos)
              THEN AtencionConductor(NIVEL_MEDIA_LARGO, "media",
                                     "inter-parpadeo promedio largo")
              ELSE AtencionConductor(NIVEL_ALTA, "alta",
                                     "patron de parpadeo en rango esperado")
         ELSE AtencionConductor(NIVEL_MEDIA_POCAS, "media",
                                "pocas muestras de parpadeo")

(***************************************************************************)
(* obtener_estadisticas                                                    *)
(***************************************************************************)
ObtenerEstadisticas(c) ==
    [parpadeos_total |-> c.conteo_parpadeos_total,
     microsuenos_total |-> c.conteo_microsuenos_total,
     bostezos_total |-> c.conteo_bostezos_total,
     cabeceos_total |-> c.conteo_cabeceos_total]

(***************************************************************************)
(* actualizar: the whole call.  Resultado is <<contador, SalidaEventos>>.  *)
(***************************************************************************)
\* faulty variant: the stored timestamp never goes back
GuardarTimestamp_SoloAdelante(c, timestamp) ==
    [c EXCEPT !.ultimo_timestamp =
        IF c.ultimo_timestamp = None THEN Some(timestamp)
        ELSE Some(Max(Val(c.ultimo_timestamp), timestamp))]

\* line 191
GuardarTimestamp(c, timestamp) == [c EXCEPT !.ultimo_timestamp = Some(timestamp)]

ResultadoActualizar(c, timestamp, medidas) ==
    LET dt == CalcularDt(c, timestamp)
        c0 == GuardarTimestamp(c, timestamp)
        r1 == ActualizarOjosYEventos(c0, dt, medidas, EventosSomnolencia)
        r2 == ActualizarBoca(r1[1], dt, medidas, r1[2])
        r3 == ActualizarCabeza(r2[1], dt, medidas, r2[2])
        atencion == EstimarAtencion(r3[1])
    IN  <<r3[1],
          [timestamp |-> timestamp,
           estado_ojos |-> r3[1].estado_ojos,
           eventos |-> r3[2],
           atencion |-> atencion]>>

ContarFlags(vistos, eventos) ==
    [f \in DOMAIN vistos |-> IF eventos[f] THEN vistos[f] + 1 ELSE vistos[f]]

Actualizar(timestamp, medidas) ==
    LET r == ResultadoActualizar(contador, timestamp, medidas)
    IN  /\ contador' = r[1]
        /\ salida' = Some(r[2])
        /\ traza' = [operacion |-> "actualizar",
                     timestamp |-> Some(timestamp),
                     advertencia |-> FALSE,
                     dt |-> Some(CalcularDt(contador, timestamp)),
                     timestamp_previo |-> contador.ultimo_timestamp,
                     medidas |-> Some(medidas),
                     estado_previo |-> contador.estado_ojos.estado,
                     duracion_previa |-> contador.estado_ojos.duracion_estado,
                     vistos |-> ContarFlags(traza.vistos, r[2].eventos)]

(***************************************************************************)
(* registrar_estimulo and registrar_respuesta                              *)
(***************************************************************************)
\* faulty variant: the stimulus also moves the clock of actualizar
ResultadoRegistrarEstimulo_MueveReloj(c, timestamp) ==
    [c EXCEPT !.ultimo_estimulo = Some(timestamp),
              !.ultimo_timestamp = Some(timestamp)]

ResultadoRegistrarEstimulo(c, timestamp) ==
    [c EXCEPT !.ultimo_estimulo = Some(timestamp)]

\* faulty variant: the time of the response is stored before the check
RespuestaSinEstimulo_GuardaTiempo(c, timestamp) ==
    [c EXCEPT !.ultimo_tiempo_respuesta = Some(timestamp)]

\* lines 227-229: a warning is logged and the call returns
RespuestaSinEstimulo(c, timestamp) == c

\* faulty variant: at the limit the newest latency is dropped, not the oldest
AgregarLatencia_QuitaUltima(latencias, latencia) ==
    IF Len(latencias) >= MAX_LATENCIAS THEN latencias ELSE Append(latencias, latencia)

\* lines 237-239
AgregarLatencia(latencias, latencia) ==
    LET l == Append(latencias, latencia)
    IN  IF Len(l) > MAX_LATENCIAS THEN Tail(l) ELSE l

ResultadoRegistrarRespuesta(c, timestamp) ==
    IF c.ultimo_estimulo = None
    THEN RespuestaSinEstimulo(c, timestamp)
    ELSE [c EXCEPT
            !.ultimo_tiempo_respuesta = Some(timestamp),
            !.latencias_respuesta =
                AgregarLatencia(@, Max(0, timestamp - Val(c.ultimo_estimulo))),
            !.ultimo_estimulo = None]

RegistrarEstimulo(timestamp) ==
    /\ contador' = ResultadoRegistrarEstimulo(contador, timestamp)
    /\ traza' = [traza EXCEPT !.operacion = "registrar_estimulo",
                              !.timestamp = Some(timestamp),
                              !.advertencia = FALSE]
    /\ UNCHANGED salida

RegistrarRespuesta(timestamp) ==
    /\ contador' = ResultadoRegistrarRespuesta(contador, timestamp)
    /\ traza' = [traza EXCEPT !.operacion = "registrar_respuesta",
                              !.timestamp = Some(timestamp),
                              !.advertencia = (contador.ultimo_estimulo = None)]
    /\ UNCHANGED salida

Canales == {"ojos", "boca", "cabeza"}

(***************************************************************************)
(* medidas_rostro.py: CalculadorMedidasRostro.  A list of pixel points is  *)
(* a function on 0 .. n-1; distances are taken to the nearest pixel, EAR   *)
(* and MAR and the relative heights to the grids of the counter.  An       *)
(* ErrorMedidasRostro raised by a helper is a record with falla = TRUE.    *)
(***************************************************************************)
INDICES_FACEMESH ==
    [ojos |-> [izquierdo |-> <<33, 160, 158, 133, 153, 144>>,
               derecho |-> <<362, 385, 387, 263, 373, 380>>],
     boca |-> [comisura_izquierda |-> 78, comisura_derecha |-> 308,
               labio_superior |-> 13, labio_inferior |-> 14],
     cabeza |-> [nariz |-> 1, menton |-> 152]]

DatosRostro(rostro_presente, puntos_pixeles, resolucion) ==
    [rostro_presente |-> rostro_presente, puntos_pixeles |-> puntos_pixeles,
     resolucion |-> resolucion]

\* the dataclasses as their constructors leave them without arguments
MedidasOjosVacias ==
    [ear_izquierdo |-> None, ear_derecho |-> None, ear_promedio |-> None,
     valido |-> FALSE, mensaje_error |-> None]
MedidasBocaVacias ==
    [mar |-> None, apertura_vertical_pixeles |-> None, ancho_boca_pixeles |-> None,
     valido |-> FALSE, mensaje_error |-> None]
MedidasCabezaVacias ==
    [altura_relativa_nariz |-> None, altura_relativa_menton |-> None,
     distancia_nariz_menton_pixeles |-> None,
     valido |-> FALSE, mensaje_error |-> None]
MedidasRostroVacias ==
    [medidas_ojos |-> MedidasOjosVacias, medidas_boca |-> MedidasBocaVacias,
     medidas_cabeza |-> MedidasCabezaVacias, rostro_presente |-> FALSE,
     razones_no_valido |-> <<>>]

Falla(mensaje) == [falla |-> TRUE, mensaje |-> mensaje]
Hecho(medidas) == [falla |-> FALSE, medidas |-> medidas]

Longitud(puntos) == Cardinality(DOMAIN puntos)

\* the square root to the nearest integer
Raiz(n) == CHOOSE r \in 0..n : /\ r = 0 \/ (2 * r - 1) * (2 * r - 1) <= 4 * n
                               /\ 4 * n < (2 * r + 1) * (2 * r + 1)

\* _distancia_2d
Distancia2d(p1, p2) ==
    Raiz((p1[1] - p2[1]) * (p1[1] - p2[1]) + (p1[2] - p2[2]) * (p1[2] - p2[2]))

\* _obtener_punto raises for the first of the indices, taken in order, that
\* is outside the list; None when every index is inside
RECURSIVE PrimeroFueraDeRango(_, _)
PrimeroFueraDeRango(puntos, indices) ==
    IF indices = <<>> THEN None
    ELSE IF Head(indices) < 0 \/ Head(indices) >= Longitud(puntos)
         THEN Some(<<"Indice de punto fuera de rango", Head(indices), Longitud(puntos)>>)
         ELSE PrimeroFueraDeRango(puntos, Tail(indices))

\* the two vertical distances and twice the horizontal one of an eye
NumeradorEar(puntos, i) == Distancia2d(puntos[i[2]], puntos[i[6]])
                             + Distancia2d(puntos[i[3]], puntos[i[5]])
DenominadorEar(puntos, i) == 2 * Distancia2d(puntos[i[1]], puntos[i[4]])

\* _calcular_medidas_ojos
CalcularMedidasOjos(puntos) ==
    LET izq == INDICES_FACEMESH.ojos.izquierdo
        der == INDICES_FACEMESH.ojos.derecho
    IN  IF Len(izq) # 6 \/ Len(der) # 6
        THEN Falla(<<"Los indices de ojos deben tener exactamente 6 puntos por ojo">>)
        ELSE IF PrimeroFueraDeRango(puntos, izq) # None
        THEN Falla(Val(PrimeroFueraDeRango(puntos, izq)))
        ELSE IF DenominadorEar(puntos, izq) <= 0
        THEN Falla(<<"Distancia horizontal del ojo izquierdo es cero">>)
        ELSE IF PrimeroFueraDeRango(puntos, der) # None
        THEN Falla(Val(PrimeroFueraDeRango(puntos, der)))
        ELSE IF DenominadorEar(puntos, der) <= 0
        THEN Falla(<<"Distancia horizontal del ojo derecho es cero">>)
        ELSE LET ni == NumeradorEar(puntos, izq)
                 di == DenominadorEar(puntos, izq)
                 nd == NumeradorEar(puntos, der)
                 dd == DenominadorEar(puntos, der)
             IN  Hecho([ear_izquierdo |-> Some(RoundDiv(50 * ni, di)),
                        ear_derecho |-> Some(RoundDiv(50 * nd, dd)),
                        ear_promedio |->
                            Some(RoundDiv(50 * (ni * dd + nd * di), 2 * di * dd)),
                        valido |-> TRUE, mensaje_error |-> None])

\* _calcular_medidas_boca
CalcularMedidasBoca(puntos) ==
    LET b == INDICES_FACEMESH.boca
        indices == <<b.comisura_izquierda, b.comisura_derecha,
                     b.labio_superior, b.labio_inferior>>
    IN  IF PrimeroFueraDeRango(puntos, indices) # None
        THEN Falla(Val(PrimeroFueraDeRango(puntos, indices)))
        ELSE LET ancho_boca == Distancia2d(puntos[b.comisura_izquierda],
                                           puntos[b.comisura_derecha])
                 apertura_vertical == Distancia2d(puntos[b.labio_superior],
                                                  puntos[b.labio_inferior])
             IN  IF ancho_boca <= 0
                 THEN Falla(<<"Ancho de boca es cero o negativo">>)
                 ELSE Hecho([mar |-> Some(RoundDiv(10 * apertura_vertical, ancho_boca)),
                             apertura_vertical_pixeles |-> Some(apertura_vertical),
                             ancho_boca_pixeles |-> Some(ancho_boca),
                             valido |-> TRUE, mensaje_error |-> None])

\* _calcular_medidas_cabeza
CalcularMedidasCabeza(puntos, alto) ==
    LET c == INDICES_FACEMESH.cabeza
    IN  IF PrimeroFueraDeRango(puntos, <<c.nariz, c.menton>>) # None
        THEN Falla(Val(PrimeroFueraDeRango(puntos, <<c.nariz, c.menton>>)))
        ELSE IF alto <= 0
        THEN Falla(<<"Altura de imagen invalida">>)
        ELSE Hecho([altura_relativa_nariz |->
                        Some(RoundDiv(1000000 * puntos[c.nariz][2], alto)),
                    altura_relativa_menton |->
                        Some(RoundDiv(1000000 * puntos[c.menton][2], alto)),
                    distancia_nariz_menton_pixeles |->
                        Some(Distancia2d(puntos[c.nariz], puntos[c.menton])),
                    valido |-> TRUE, mensaje_error |-> None])

\* try / except ErrorMedidasRostro around one channel: the computed record,
\* or the empty one with the message of the error
Intentar(resultado, vacias) ==
    IF resultado.falla
    THEN [vacias EXCEPT !.mensaje_error = Some(resultado.mensaje)]
    ELSE resultado.medidas

\* faulty variant: a reason is given as soon as one channel is not valid
NingunaValida_FaltaAlguna(medidas) ==
    ~(/\ medidas.medidas_ojos.valido
      /\ medidas.medidas_boca.valido
      /\ medidas.medidas_cabeza.valido)

\* lines 202-205
NingunaValida(medidas) ==
    ~(\/ medidas.medidas_ojos.valido
      \/ medidas.medidas_boca.valido
      \/ medidas.medidas_cabeza.valido)

\* calcular_medidas
CalcularMedidas(datos_rostro) ==
    LET medidas == [MedidasRostroVacias EXCEPT
                      !.rostro_presente = datos_rostro.rostro_presente]
    IN  IF ~datos_rostro.rostro_presente
        THEN [medidas EXCEPT !.razones_no_valido =
                Append(@, "No se detecto rostro en el frame.")]
        ELSE IF datos_rostro.puntos_pixeles = None \/ datos_rostro.resolucion = None
        THEN [medidas EXCEPT !.razones_no_valido =
                Append(@, "Datos de puntos_pixeles o resolucion no disponibles.")]
        ELSE
        LET puntos == Val(datos_rostro.puntos_pixeles)
            alto == Val(datos_rostro.resolucion)[2]
            m == [medidas EXCEPT
                    !.medidas_ojos = Intentar(CalcularMedidasOjos(puntos), @),
                    !.medidas_boca = Intentar(CalcularMedidasBoca(puntos), @),
                    !.medidas_cabeza = Intentar(CalcularMedidasCabeza(puntos, alto), @)]
        IN  IF NingunaValida(m)
            THEN [m EXCEPT !.razones_no_valido =
                    Append(@, "Ninguna de las medidas principales se pudo calcular.")]
            ELSE m

\* a call of calcular_medidas
Calcular(datos_rostro) ==
    medicion' = [datos_rostro |-> Some(datos_rostro),
                 medidas |-> Some(CalcularMedidas(datos_rostro))]

(***************************************************************************)
(* captura_video.py: CapturadorVideo.  The handle _captura is None or a    *)
(* VideoCapture object, which is open or not.  What the source does is an  *)
(* input: for an attempt to open it "no_abre" (the object is created but   *)
(* not opened), "sin_frames" (opened, the three initial reads fail) or     *)
(* "lee" (opened and an initial frame read); for a read "ok", "falla"      *)
(* (ret is false) or "vacio" (an empty frame).                             *)
(***************************************************************************)
VideoCapture(abierta) == Some([abierta |-> abierta])

\* faulty variant: the handle is kept
LiberarCaptura_SinSoltar(c) == c

\* liberar: release the handle, if there is one, and forget it
LiberarCaptura(c) ==
    IF c.captura # None
    THEN [c EXCEPT !.captura = None, !.ultima.liberadas = @ + 1]
    ELSE c

\* _intentar_abrir_fuente
IntentarAbrirFuente(c, resultado) ==
    [c EXCEPT !.captura = VideoCapture(resultado # "no_abre")]

\* _validar_lectura_inicial
ValidarLecturaInicial(resultado) == resultado = "lee"

\* the body of the loop of iniciar from attempt number intento (from 0) on
RECURSIVE IniciarDesde(_, _, _)
IniciarDesde(c, intento, resultados) ==
    IF intento >= MAX_REINTENTOS
    THEN c
    ELSE LET c1 == [IntentarAbrirFuente(c, resultados[intento + 1])
                      EXCEPT !.ultima.intentos = intento + 1]
         IN  IF /\ c1.captura # None
                /\ Val(c1.captura).abierta
                /\ ValidarLecturaInicial(resultados[intento + 1])
             THEN c1
             ELSE LET c2 == LiberarCaptura(c1)
                  IN  IF intento = MAX_REINTENTOS - 1
                      THEN [c2 EXCEPT !.ultima.excepcion = TRUE]
                      ELSE IniciarDesde(c2, intento + 1, resultados)

UltimaLlamada(operacion) ==
    [operacion |-> operacion, excepcion |-> FALSE, intentos |-> 0,
     liberadas |-> 0, ok |-> FALSE, fuente |-> <<>>]

\* iniciar
ResultadoIniciar(c, resultados) ==
    IniciarDesde([c EXCEPT !.ultima = UltimaLlamada("iniciar")], 0, resultados)

\* leer_frame
ResultadoLeerFrame(c, lectura) ==
    LET c0 == [c EXCEPT !.ultima = UltimaLlamada("leer_frame")]
    IN  IF c0.captura = None
        THEN [c0 EXCEPT !.ultima.excepcion = TRUE]
        ELSE IF lectura = "ok"
        THEN [c0 EXCEPT !.frames_leidos = @ + 1, !.ultima.ok = TRUE]
        ELSE [c0 EXCEPT !.frames_fallidos = @ + 1]

\* liberar
ResultadoLiberar(c) == LiberarCaptura([c EXCEPT !.ultima = UltimaLlamada("liberar")])

\* reiniciar: liberar and then iniciar
ResultadoReiniciar(c, resultados) ==
    LET c0 == LiberarCaptura([c EXCEPT !.ultima = UltimaLlamada("reiniciar")])
    IN  IniciarDesde(c0, 0, resultados)

Iniciar(resultados) ==
    capturador' = [ResultadoIniciar(capturador, resultados)
                     EXCEPT !.ultima.fuente = resultados]
LeerFrame(lectura) ==
    capturador' = [ResultadoLeerFrame(capturador, lectura)
                     EXCEPT !.ultima.fuente = <<>>]
Liberar ==
    capturador' = [ResultadoLiberar(capturador) EXCEPT !.ultima.fuente = <<>>]
Reiniciar(resultados) ==
    capturador' = [ResultadoReiniciar(capturador, resultados)
                     EXCEPT !.ultima.fuente = resultados]

(***************************************************************************)
(* detector_rostro_mediapipe.py: DetectorRostroMediaPipe.  A frame is      *)
(* "vacio" (None or of size 0), "error" (cvtColor or FaceMesh raises),     *)
(* "sin_rostro" (FaceMesh returns no landmarks), "rostro" (landmarks,      *)
(* named by a number) or "rostro_roto" (landmarks whose conversion to      *)
(* pixels raises).  Confidence is in tenths; time measurements are left    *)
(* out.                                                                    *)
(***************************************************************************)
Frame(tipo, puntos, resolucion) ==
    [tipo |-> tipo, puntos |-> puntos, resolucion |-> resolucion]

ResultadoDetector(rostro_presente, puntos, resolucion, confiabilidad) ==
    [rostro_presente |-> rostro_presente, puntos |-> puntos,
     resolucion |-> resolucion, confiabilidad |-> confiabilidad]

\* _crear_resultado_vacio
CrearResultadoVacio(resolucion) == ResultadoDetector(FALSE, None, resolucion, 0)

\* MetricasDetector.actualizar
ActualizarMetricas(metricas, datos_rostro, error) ==
    LET m == [metricas EXCEPT !.frames_procesados = @ + 1]
    IN  IF error THEN [m EXCEPT !.errores_procesamiento = @ + 1]
        ELSE IF datos_rostro.rostro_presente
        THEN [m EXCEPT !.frames_con_rostro = @ + 1]
        ELSE [m EXCEPT !.frames_sin_rostro = @ + 1]

\* faulty variant: the cached result is used one frame longer
CacheVigente_UnoMas(d) ==
    /\ d.habilitar_cache
    /\ d.ultimo_resultado # None
    /\ d.frames_consecutivos_sin_rostro <= d.max_frames_sin_deteccion + 1

\* lines 239-241, with the counter already advanced
CacheVigente(d) ==
    /\ d.habilitar_cache
    /\ d.ultimo_resultado # None
    /\ d.frames_consecutivos_sin_rostro <= d.max_frames_sin_deteccion

\* lines 234-277: FaceMesh found no face
SinDeteccion(d, resolucion) ==
    LET d1 == [d EXCEPT !.frames_consecutivos_sin_rostro = @ + 1]
    IN  IF CacheVigente(d1)
        THEN <<d1, ResultadoDetector(TRUE, Val(d1.ultimo_resultado).puntos,
                                     resolucion, 8)>>
        ELSE <<IF d1.frames_consecutivos_sin_rostro > d1.max_frames_sin_deteccion
               THEN [d1 EXCEPT !.ultimo_resultado = None]
               ELSE d1,
               ResultadoDetector(FALSE, None, resolucion, 0)>>

\* procesar_frame: the object after the call and the DatosRostro returned
ResultadoProcesarFrame(d, frame) ==
    IF frame.tipo = "vacio"
    THEN LET resultado == CrearResultadoVacio(None)
         IN  <<[d EXCEPT !.metricas = ActualizarMetricas(@, resultado, FALSE)],
               resultado>>
    ELSE IF frame.tipo = "error"
    THEN LET resultado == CrearResultadoVacio(Some(frame.resolucion))
         IN  <<[d EXCEPT !.metricas = ActualizarMetricas(@, resultado, TRUE)],
               resultado>>
    ELSE IF frame.tipo = "sin_rostro"
    THEN LET r == SinDeteccion(d, Some(frame.resolucion))
         IN  <<[r[1] EXCEPT !.metricas = ActualizarMetricas(@, r[2], FALSE)], r[2]>>
    ELSE LET d1 == [d EXCEPT !.frames_consecutivos_sin_rostro = 0]
         IN  IF frame.tipo = "rostro_roto"
             THEN LET resultado == CrearResultadoVacio(Some(frame.resolucion))
                  IN  <<[d1 EXCEPT !.metricas = ActualizarMetricas(@, resultado, TRUE)],
                        resultado>>
             ELSE LET resultado == ResultadoDetector(TRUE, frame.puntos,
                                                     Some(frame.resolucion), 10)
                      d2 == IF d1.habilitar_cache
                            THEN [d1 EXCEPT !.ultimo_resultado = Some(resultado)]
                            ELSE d1
                  IN  <<[d2 EXCEPT !.metricas = ActualizarMetricas(@, resultado, FALSE)],
                        resultado>>

\* the misses (frames on which FaceMesh found no face) seen since the last
\* frame on which it found one
FallosSeguidos(d, frame) ==
    IF frame.tipo \in {"rostro", "rostro_roto"} THEN 0
    ELSE IF frame.tipo = "sin_rostro" THEN d.ultima.fallos_seguidos + 1
    ELSE d.ultima.fallos_seguidos

ProcesarFrame(frame) ==
    LET r == ResultadoProcesarFrame(detector, frame)
    IN  detector' = [r[1] EXCEPT !.ultima =
                        [operacion |-> "procesar_frame", frame |-> Some(frame),
                         resultado |-> Some(r[2]),
                         fallos_seguidos |-> FallosSeguidos(detector, frame)]]

\* invalidar_cache
InvalidarCache ==
    detector' = [detector EXCEPT !.ultimo_resultado = None,
                                 !.frames_consecutivos_sin_rostro = 0,
                                 !.ultima.operacion = "invalidar_cache"]

\* two objects just constructed, none of their methods called yet
InitDe(c, c2, d) ==
    /\ contador = c
    /\ salida = None
    /\ traza = [operacion |-> "ninguna", timestamp |-> None,
                advertencia |-> FALSE,
                dt |-> None, timestamp_previo |-> None, medidas |-> None,
                estado_previo |-> "desconocido", duracion_previa |-> 0,
                vistos |-> [parpadeo |-> 0, microsueno |-> 0,
                            bostezo |-> 0, cabeceo |-> 0]]
    /\ llamadas = 0
    /\ previa = [medidas |-> None, salida |-> None]
    /\ muestras = [minimo |-> None, maximo |-> None,
                   clase |-> "desconocido", corrida |-> 0, frames |-> 0,
                   pausa |-> 0, total |-> 0, abierto_visto |-> TRUE,
                   suma_dt |-> 0, ts_min |-> None, ts_max |-> None]
    /\ medicion = MedicionInicial
    /\ capturador = CapturadorInicial
    /\ detector = d
    /\ sombra = [contador |-> c2, salida |-> None, coinciden |-> Canales]

InitCon(c, c2) == InitDe(c, c2, DetectorInicial)

Init == InitCon(ContadorInicial, ContadorInicial)

(***************************************************************************)
(* Inputs.  A call's timestamp is the previous one plus a step from a      *)
(* small set (a negative step is an out-of-order timestamp).  The          *)
(* accumulators and counters, which the program lets grow without limit,   *)
(* are capped in each next-state relation; a specification whose steps     *)
(* may all be 0 or negative bounds the number of calls instead of the time.*)
(***************************************************************************)
SinContar == llamadas' = llamadas
SinPrevia == previa' = previa
Recordar == previa' = [medidas |-> traza.medidas, salida |-> salida]
SinSombra == sombra' = sombra
SinMuestras == muestras' = muestras
\* the calculator, the capture and the detector are not called
SinPerifericos == UNCHANGED <<medicion, capturador, detector>>
\* the counter is not called
SinContador == UNCHANGED <<contador, salida, traza, llamadas, previa, muestras, sombra>>
\* the raw EAR of a valid eye reading is added to the samples seen
Muestrear(medidas) ==
    LET ear_crudo == EarCrudo(medidas)
    IN  muestras' =
          IF ear_crudo = None THEN muestras
          ELSE IF muestras.minimo = None
               THEN [muestras EXCEPT !.minimo = ear_crudo, !.maximo = ear_crudo]
               ELSE [muestras EXCEPT
                        !.minimo = Some(-Max(-Val(muestras.minimo), -Val(ear_crudo))),
                        !.maximo = Some(Max(Val(muestras.maximo), Val(ear_crudo)))]
\* the time between this call and the one before, 0 if this one is not later,
\* is added up, and the smallest and largest timestamp seen are kept
Cronometrar(timestamp) ==
    muestras' =
      IF traza.timestamp = None
      THEN [muestras EXCEPT !.ts_min = Some(timestamp), !.ts_max = Some(timestamp)]
      ELSE [muestras EXCEPT
              !.suma_dt = @ + Max(0, timestamp - Val(traza.timestamp)),
              !.ts_min = Some(-Max(-Val(@), -timestamp)),
              !.ts_max = Some(Max(Val(@), timestamp))]
\* the closed run the call belongs to is measured from the frames themselves.
\* A frame is "desconocido" when it brings no eye reading and otherwise what
\* the eye state is after it.  `corrida' is the sum of dt and `frames' the
\* number of the closed frames that follow one another without any other frame
\* in between, `pausa' the longest dt between two of them; `total' is the sum of dt of the closed frames since the last
\* open frame, frames without a reading in between or not.
MedirCorrida(timestamp, medidas) ==
    LET dt == CalcularDt(contador, timestamp)
        clase == IF EarCrudo(medidas) = None THEN "desconocido"
                 ELSE contador'.estado_ojos.estado
    IN  muestras' =
          IF clase = "cerrado"
          THEN IF muestras.clase = "cerrado"
               THEN [muestras EXCEPT !.corrida = @ + dt, !.frames = @ + 1,
                                     !.pausa = Max(@, dt), !.total = @ + dt]
               ELSE [muestras EXCEPT !.clase = clase, !.corrida = dt, !.frames = 1,
                                     !.pausa = 0,
                                     !.total = IF muestras.abierto_visto
                                               THEN dt ELSE @ + dt,
                                     !.abierto_visto = FALSE]
          ELSE IF clase = "abierto"
          THEN [muestras EXCEPT !.clase = clase, !.abierto_visto = TRUE]
          ELSE [muestras EXCEPT !.clase = clase]
\* the second object receives the same call of actualizar
Seguir(timestamp, medidas) ==
    LET r == ResultadoActualizar(sombra.contador, timestamp, medidas)
    IN  sombra' = [sombra EXCEPT !.contador = r[1], !.salida = Some(r[2])]

\* the second object receives a call of actualizar with the same timestamp
\* and the measurement medidas2
CanalesIguales(medidas, medidas2) ==
    {c \in Canales :
        \/ c = "ojos" /\ medidas.medidas_ojos = medidas2.medidas_ojos
        \/ c = "boca" /\ medidas.medidas_boca = medidas2.medidas_boca
        \/ c = "cabeza" /\ medidas.medidas_cabeza = medidas2.medidas_cabeza}

SeguirCon(timestamp, medidas, medidas2) ==
    LET r == ResultadoActualizar(sombra.contador, timestamp, medidas2)
    IN  sombra' = [contador |-> r[1], salida |-> Some(r[2]),
                   coinciden |-> sombra.coinciden \cap CanalesIguales(medidas, medidas2)]
Contar(maximo) == llamadas < maximo /\ llamadas' = llamadas + 1

Timestamps(pasos, maximo) ==
    IF contador.ultimo_timestamp = None
    THEN {0}
    ELSE {t \in {Val(contador.ultimo_timestamp) + d : d \in pasos} :
            0 <= t /\ t <= maximo}

Acotado(max_dur, max_conteo) ==
    /\ contador.estado_ojos.duracion_estado <= max_dur
    /\ contador.tiempo_boca_abierta <= max_dur
    /\ contador.tiempo_cabeza_abajo <= max_dur
    /\ contador.conteo_parpadeos_total <= max_conteo
    /\ contador.conteo_microsuenos_total <= max_conteo
    /\ contador.conteo_bostezos_total <= max_conteo
    /\ contador.conteo_cabeceos_total <= max_conteo

OjosAusentes == MedidasOjos(FALSE, None)
BocaAusente == MedidasBoca(FALSE, None)
CabezaAusente == MedidasCabeza(FALSE, None, None)

\* channels flagged valid whose reading is missing
OjosSinEar == MedidasOjos(TRUE, None)
BocaSinMar == MedidasBoca(TRUE, None)
CabezaSinAlturas == MedidasCabeza(TRUE, None, None)

OjosCon(ear) == MedidasOjos(TRUE, Some(ear))
BocaCon(mar) == MedidasBoca(TRUE, Some(mar))
CabezaCon(nariz, menton) == MedidasCabeza(TRUE, Some(nariz), Some(menton))

\* SpecOjos: the eye channel alone, EAR 0.0, 0.18, 0.22, 0.34 or absent
\* (invalid, or valid without a reading),
\* steps of 0.10 s, 0.15 s and 0.9 s
PasosOjos == {2, 3, 18}
EarsOjos == {0, 9, 11, 17}
EntradasOjos ==
    {MedidasRostro(o, BocaAusente, CabezaAusente, TRUE) :
        o \in {OjosAusentes, OjosSinEar} \cup {OjosCon(e) : e \in EarsOjos}}

NextOjos ==
    \E timestamp \in Timestamps(PasosOjos, MaxTime), medidas \in EntradasOjos :
        /\ Actualizar(timestamp, medidas) /\ Acotado(MaxDur, MaxConteo)'
        /\ SinContar /\ SinPrevia /\ SinMuestras /\ SinPerifericos /\ SinSombra

SpecOjos == Init /\ [][NextOjos]_vars

\* SpecFiltro: the eye channel alone, EAR 0.0, 0.16, 0.26, 0.34 or absent
\* (invalid, or valid without a reading), a frame every 0.2 s
MaxLlamadasFiltro == 6
EarsFiltro == {0, 8, 13, 17}
EntradasFiltro ==
    {MedidasRostro(o, BocaAusente, CabezaAusente, TRUE) :
        o \in {OjosAusentes, OjosSinEar} \cup {OjosCon(e) : e \in EarsFiltro}}

NextFiltro ==
    \E timestamp \in Timestamps({4}, 4 * MaxLlamadasFiltro), medidas \in EntradasFiltro :
        /\ Contar(MaxLlamadasFiltro)
        /\ Actualizar(timestamp, medidas)
        /\ Muestrear(medidas)
        /\ SinPrevia /\ SinPerifericos /\ SinSombra

SpecFiltro == Init /\ [][NextFiltro]_vars

\* SpecAdaptacion: the head channel alone, a frame every 0.5 s or 1.0 s.
\* Poses <<nose, chin>>: upright, lowered by 0.1004 (over the threshold by
\* less than one drift step of the baseline), lowered by 0.12.
MaxLlamadasAdaptacion == 6
PasosAdaptacion == {10, 20}
PosesAdaptacion == {<<400000, 600000>>, <<500400, 700400>>, <<520000, 720000>>}
EntradasAdaptacion ==
    {MedidasRostro(OjosAusentes, BocaAusente, h, TRUE) :
        h \in {CabezaAusente} \cup {CabezaCon(p[1], p[2]) : p \in PosesAdaptacion}}

NextAdaptacion ==
    \E timestamp \in Timestamps(PasosAdaptacion, 6 * MaxTime), medidas \in EntradasAdaptacion :
        /\ Contar(MaxLlamadasAdaptacion)
        /\ Actualizar(timestamp, medidas)
        /\ SinPrevia /\ SinMuestras /\ SinPerifericos /\ SinSombra

SpecAdaptacion == Init /\ [][NextAdaptacion]_vars

\* SpecUmbral: two objects built with different umbral_ear_cerrado (0.10,
\* 0.20 or 0.30) receive the same calls; the eye channel alone, EAR 0.0,
\* 0.26 or 0.34 or absent, a frame every 0.10 s or 0.15 s
MaxLlamadasUmbral == 6
UmbralesNominales == {5, 10, 15}
EntradasUmbral ==
    {MedidasRostro(o, BocaAusente, CabezaAusente, TRUE) :
        o \in {OjosAusentes} \cup {OjosCon(e) : e \in {0, 13, 17}}}

InitUmbral ==
    \E u \in UmbralesNominales :
        \E u2 \in UmbralesNominales \ {u} :
            InitCon(Construir(u), Construir(u2))

NextUmbral ==
    \E timestamp \in Timestamps({2, 3}, 3 * MaxLlamadasUmbral), medidas \in EntradasUmbral :
        /\ Contar(MaxLlamadasUmbral)
        /\ Actualizar(timestamp, medidas)
        /\ Seguir(timestamp, medidas)
        /\ SinPrevia /\ SinMuestras /\ SinPerifericos

SpecUmbral == InitUmbral /\ [][NextUmbral]_vars

\* SpecVentana: the eye channel alone, EAR 0.0 or 0.34, a frame 0.15 s or
\* 35 s after the one before, up to 75 s
MaxLlamadasVentana == 8
MaxTimeVentana == 1500
PasosVentana == {3, 700}
EntradasVentana ==
    {MedidasRostro(OjosCon(e), BocaAusente, CabezaAusente, TRUE) : e \in {0, 17}}

NextVentana ==
    \E timestamp \in Timestamps(PasosVentana, MaxTimeVentana), medidas \in EntradasVentana :
        /\ Contar(MaxLlamadasVentana)
        /\ Actualizar(timestamp, medidas)
        /\ SinPrevia /\ SinMuestras /\ SinPerifericos /\ SinSombra

SpecVentana == Init /\ [][NextVentana]_vars

\* SpecLatencias: calls of registrar_estimulo and registrar_respuesta alone,
\* at 0.1 s or 0.5 s.  While fewer than CalentamientoLatencias latencies are
\* stored the times are fixed (stimulus at 0.1 s when the history has an even
\* length, at 0.5 s otherwise, response at 0.5 s: latencies 0.4 s and 0 in
\* turn); after that both times are free and the calls are counted.
CalentamientoLatencias == 48
MaxLlamadasLatencias == 8
TiemposDeEstimulo ==
    IF Len(contador.latencias_respuesta) >= CalentamientoLatencias THEN {2, 10}
    ELSE IF Len(contador.latencias_respuesta) % 2 = 0 THEN {2} ELSE {10}
TiemposDeRespuesta ==
    IF Len(contador.latencias_respuesta) >= CalentamientoLatencias THEN {2, 10} ELSE {10}
ContarLibres ==
    IF Len(contador.latencias_respuesta) >= CalentamientoLatencias
    THEN Contar(MaxLlamadasLatencias)
    ELSE SinContar

NextLatencias ==
    \/ \E timestamp \in TiemposDeEstimulo :
           /\ ContarLibres
           /\ RegistrarEstimulo(timestamp)
           /\ SinPrevia /\ SinMuestras /\ SinPerifericos /\ SinSombra
    \/ \E timestamp \in TiemposDeRespuesta :
           /\ ContarLibres
           /\ RegistrarRespuesta(timestamp)
           /\ SinPrevia /\ SinMuestras /\ SinPerifericos /\ SinSombra

SpecLatencias == Init /\ [][NextLatencias]_vars

\* SpecMedidas: calls of calcular_medidas.  A face is a list of n points, all
\* at <<0, 0>> except the landmarks the calculator reads: eyes of width wi
\* and wd and opening a, a mouth of width wb and opening ab, nose and chin
\* at heights yn and ym.  The lists of 155 and 310 points hold the head's
\* landmarks, and the head's and the mouth's and the left eye's, and no more;
\* a width of 0 puts both corners on one pixel.
Cara(n, wi, wd, a, wb, ab, yn, ym) ==
    LET marcas ==
          [i \in {33, 133, 160, 144, 158, 153, 362, 263, 385, 380, 387, 373,
                  78, 308, 13, 14, 1, 152} |->
             CASE i = 33 -> <<10, 30>>   [] i = 133 -> <<10 + wi, 30>>
               [] i = 160 -> <<12, 28>>  [] i = 144 -> <<12, 28 + a>>
               [] i = 158 -> <<16, 28>>  [] i = 153 -> <<16, 28 + a>>
               [] i = 362 -> <<50, 30>>  [] i = 263 -> <<50 + wd, 30>>
               [] i = 385 -> <<52, 28>>  [] i = 380 -> <<52, 28 + a>>
               [] i = 387 -> <<56, 28>>  [] i = 373 -> <<56, 28 + a>>
               [] i = 78 -> <<25, 70>>   [] i = 308 -> <<25 + wb, 70>>
               [] i = 13 -> <<35, 68>>   [] i = 14 -> <<35, 68 + ab>>
               [] i = 1 -> <<35, yn>>    [] i = 152 -> <<35, ym>>]
    IN  [i \in 0..(n - 1) |-> IF i \in DOMAIN marcas THEN marcas[i] ELSE <<0, 0>>]

Caras ==
    {Cara(n, wi, wd, a, wb, ab, h[1], h[2]) :
        n \in {0, 155, 310, 468}, wi \in {0, 10}, wd \in {0, 10}, a \in {1, 3},
        wb \in {0, 20}, ab \in {2, 14}, h \in {<<40, 60>>, <<52, 72>>}}

EntradasMedidas ==
    {DatosRostro(presente, puntos, resolucion) :
        presente \in BOOLEAN,
        puntos \in {None} \cup {Some(c) : c \in Caras},
        resolucion \in {None, Some(<<100, 100>>), Some(<<100, 0>>)}}

NextMedidas ==
    \E datos_rostro \in EntradasMedidas :
        /\ Calcular(datos_rostro)
        /\ UNCHANGED <<capturador, detector>>
        /\ SinContador

SpecMedidas == Init /\ [][NextMedidas]_vars

\* SpecCaptura: calls of iniciar, leer_frame, liberar and reiniciar in any
\* order, the source behaving in every way on each attempt and each read,
\* until MaxFramesCaptura frames have been read or have failed
MaxFramesCaptura == 3
ResultadosDeApertura == {"no_abre", "sin_frames", "lee"}
Fuentes == [1..MAX_REINTENTOS -> ResultadosDeApertura]
Lecturas == {"ok", "falla", "vacio"}

\* only the capture is called
SoloCaptura == UNCHANGED <<medicion, detector>> /\ SinContador

NextCaptura ==
    \/ \E resultados \in Fuentes : Iniciar(resultados) /\ SoloCaptura
    \/ \E lectura \in Lecturas :
          /\ capturador.frames_leidos + capturador.frames_fallidos < MaxFramesCaptura
          /\ LeerFrame(lectura)
          /\ SoloCaptura
    \/ Liberar /\ SoloCaptura
    \/ \E resultados \in Fuentes : Reiniciar(resultados) /\ SoloCaptura

SpecCaptura == Init /\ [][NextCaptura]_vars

\* SpecDetector: a detector built with the cache enabled or not receives up
\* to MaxFramesDetector frames of every kind, two faces among them, with
\* calls of invalidar_cache in between
MaxFramesDetector == 9
Frames ==
    {Frame(tipo, None, <<640, 480>>) : tipo \in {"vacio", "error", "sin_rostro", "rostro_roto"}}
      \cup {Frame("rostro", Some(p), <<640, 480>>) : p \in {1, 2}}

\* only the detector is called
SoloDetector == UNCHANGED <<medicion, capturador>> /\ SinContador

InitDetector ==
    \E habilitar_cache \in BOOLEAN :
        InitDe(ContadorInicial, ContadorInicial,
               ConstruirDetector(habilitar_cache, MAX_FRAMES_SIN_DETECCION))

NextDetector ==
    \/ \E frame \in Frames :
          /\ detector.metricas.frames_procesados < MaxFramesDetector
          /\ ProcesarFrame(frame)
          /\ SoloDetector
    \/ /\ detector.ultima.operacion = "procesar_frame"
       /\ InvalidarCache
       /\ SoloDetector

SpecDetector == InitDetector /\ [][NextDetector]_vars

\* SpecDesorden: the eye channel alone, open or shut, with timestamps that
\* advance by 0.1 s or 0.15 s, repeat, or go back by 0.4 s; the time between
\* calls is added up
MaxLlamadasDesorden == 8
MaxTimeDesorden == 24
PasosDesorden == {-8, 0, 2, 3}
EntradasDesorden ==
    {MedidasRostro(OjosCon(e), BocaAusente, CabezaAusente, TRUE) : e \in {0, 17}}

NextDesorden ==
    \E timestamp \in Timestamps(PasosDesorden, MaxTimeDesorden), medidas \in EntradasDesorden :
        /\ Contar(MaxLlamadasDesorden)
        /\ Actualizar(timestamp, medidas)
        /\ Cronometrar(timestamp)
        /\ SinPrevia /\ SinPerifericos /\ SinSombra

SpecDesorden == Init /\ [][NextDesorden]_vars

\* SpecCorridas: the eye channel alone, open, shut or without a reading, a
\* frame 0.25 s or 1.0 s after the one before; the closed runs are measured
MaxLlamadasCorridas == 7
MaxTimeCorridas == 60
PasosCorridas == {5, 20}
EntradasCorridas ==
    {MedidasRostro(o, BocaAusente, CabezaAusente, TRUE) :
        o \in {OjosAusentes, OjosCon(0), OjosCon(17)}}

NextCorridas ==
    \E timestamp \in Timestamps(PasosCorridas, MaxTimeCorridas), medidas \in EntradasCorridas :
        /\ Contar(MaxLlamadasCorridas)
        /\ Actualizar(timestamp, medidas)
        /\ MedirCorrida(timestamp, medidas)
        /\ SinPrevia /\ SinPerifericos /\ SinSombra

SpecCorridas == Init /\ [][NextCorridas]_vars

\* SpecAtencion: eyes shut or wide open, steps of 0.2 s and 8.6 s, so that
\* blinks lie seconds apart
PasosAtencion == {4, 172}
EarsAtencion == {0, 17}
EntradasAtencion ==
    {MedidasRostro(OjosCon(e), BocaAusente, CabezaAusente, TRUE) : e \in EarsAtencion}

NextAtencion ==
    \E timestamp \in Timestamps(PasosAtencion, MaxTimeLargo),
       medidas \in EntradasAtencion :
        /\ Actualizar(timestamp, medidas)
        /\ Acotado(MaxTimeLargo, MaxConteoLargo)'
        /\ Contar(MaxLlamadasLargo) /\ SinPrevia /\ SinMuestras /\ SinPerifericos /\ SinSombra

SpecAtencion == Init /\ [][NextAtencion]_vars

\* SpecBoca: the mouth channel alone, MAR 0.3, 0.6, 0.7 or absent (invalid,
\* or valid without a reading)
PasosBoca == {-1, 0, 1, 9, 10}
MarsBoca == {3, 6, 7}
EntradasBoca ==
    {MedidasRostro(OjosAusentes, b, CabezaAusente, TRUE) :
        b \in {BocaAusente, BocaSinMar} \cup {BocaCon(m) : m \in MarsBoca}}

NextBoca ==
    \E timestamp \in Timestamps(PasosBoca, MaxTime), medidas \in EntradasBoca :
        /\ Actualizar(timestamp, medidas) /\ Acotado(MaxDur, MaxConteo)'
        /\ SinContar /\ SinPrevia /\ SinMuestras /\ SinPerifericos /\ SinSombra

SpecBoca == Init /\ [][NextBoca]_vars

\* SpecCabeza: the head channel alone, up to 3 s and MaxLlamadasCabeza calls.  Poses <<nose, chin>>: upright,
\* lowered by exactly 0.10, lowered by 0.12, nose alone lowered by 0.12.
PasosCabeza == {5, 20}
PosesCabeza == {<<400000, 600000>>, <<500000, 700000>>, <<520000, 720000>>, <<520000, 600000>>}
EntradasCabeza ==
    {MedidasRostro(OjosAusentes, BocaAusente, h, TRUE) :
        h \in {CabezaAusente} \cup {CabezaCon(p[1], p[2]) : p \in PosesCabeza}}

NextCabeza ==
    \E timestamp \in Timestamps(PasosCabeza, 3 * MaxTime), medidas \in EntradasCabeza :
        /\ Actualizar(timestamp, medidas) /\ Acotado(3 * MaxDur, MaxConteo)'
        /\ Contar(MaxLlamadasCabeza) /\ SinPrevia /\ SinMuestras /\ SinPerifericos /\ SinSombra

SpecCabeza == Init /\ [][NextCabeza]_vars

\* SpecDeriva: a slow change of posture.  The first frame, upright, sets the
\* baseline; the second frame picks a reading whose nose and chin lie less
\* than 0.10 below the baseline (or above it), and every later frame, 0.05 s
\* after the one before, repeats that reading.
PoseInicialDeriva == <<400000, 600000>>
DesviosDeriva ==
    {<<99999, 99999>>, <<30000, 60000>>, <<-50000, 99999>>, <<60000, -400000>>}
EntradasDeriva ==
    IF llamadas = 0
    THEN {CabezaCon(PoseInicialDeriva[1], PoseInicialDeriva[2])}
    ELSE IF llamadas = 1
         THEN {CabezaCon(PoseInicialDeriva[1] + d[1], PoseInicialDeriva[2] + d[2]) :
                 d \in DesviosDeriva}
         ELSE {Val(traza.medidas).medidas_cabeza}

NextDeriva ==
    \E timestamp \in Timestamps({1}, MaxFramesDeriva), h \in EntradasDeriva :
        /\ Actualizar(timestamp, MedidasRostro(OjosAusentes, BocaAusente, h, TRUE))
        /\ Contar(MaxFramesDeriva + 1) /\ SinPrevia /\ SinMuestras /\ SinPerifericos /\ SinSombra

SpecDeriva == Init /\ [][NextDeriva]_vars

\* SpecHistorial: more than a hundred blinks.  Until Calentamiento blinks
\* have been counted the driver blinks steadily (one closed frame of 0.2 s,
\* then an open frame 0.2 s or 0.4 s later, so that inter-blink intervals
\* alternate between 0.4 s and 0.6 s); after that every frame is open or
\* closed, 0.2 s or 0.4 s after the one before.  An entry is <<step, EAR>>.
EntradasHistorial ==
    IF contador.conteo_parpadeos_total < Calentamiento
    THEN {<<IF contador.estado_ojos.estado = "cerrado"
               /\ contador.conteo_parpadeos_total % 2 = 1 THEN 8 ELSE 4,
            IF contador.estado_ojos.estado = "abierto" THEN 0 ELSE 17>>}
    ELSE {4, 8} \X {0, 17}

MaxLlamadasHistorial == 1 + 2 * Calentamiento + MaxLlamadasLibres

NextHistorial ==
    \E e \in EntradasHistorial :
        \E timestamp \in Timestamps({e[1]}, 8 * MaxLlamadasHistorial) :
            /\ Actualizar(timestamp,
                          MedidasRostro(OjosCon(e[2]), BocaAusente, CabezaAusente, TRUE))
            /\ Contar(MaxLlamadasHistorial) /\ SinPrevia /\ SinMuestras /\ SinPerifericos /\ SinSombra

SpecHistorial == Init /\ [][NextHistorial]_vars

\* Spec: the three channels together, three whole-face scenes (no face,
\* awake, drowsy), out-of-order timestamps included
Pasos == {-4, 0, 4, 20}
Escenas ==
    {MedidasRostro(OjosAusentes, BocaAusente, CabezaAusente, FALSE),
     MedidasRostro(OjosCon(17), BocaCon(3), CabezaCon(400000, 600000), TRUE),
     MedidasRostro(OjosCon(0), BocaCon(7), CabezaCon(520000, 720000), TRUE)}

Next ==
    \E timestamp \in Timestamps(Pasos, MaxTime), medidas \in Escenas :
        /\ Actualizar(timestamp, medidas)
        /\ Acotado(MaxDur, MaxConteo)'
        /\ Contar(MaxLlamadas) /\ Recordar /\ SinMuestras /\ SinPerifericos /\ SinSombra

Spec == Init /\ [][Next]_vars

\* SpecEstimulos: calls of actualizar (awake and drowsy scene) interleaved in
\* every way with calls of registrar_estimulo and registrar_respuesta at
\* 0.1 s and 0.5 s; a second object is fed the calls of actualizar alone.
PasosEstimulos == {4, 20}
TiemposEstimulo == {2, 10}
EscenasEstimulos ==
    {MedidasRostro(OjosCon(17), BocaCon(3), CabezaCon(400000, 600000), TRUE),
     MedidasRostro(OjosCon(0), BocaCon(7), CabezaCon(520000, 720000), TRUE)}

NextEstimulos ==
    \/ \E timestamp \in Timestamps(PasosEstimulos, 4 * MaxTime),
          medidas \in EscenasEstimulos :
           /\ Actualizar(timestamp, medidas)
           /\ Seguir(timestamp, medidas)
           /\ Contar(MaxLlamadasEstimulos) /\ SinPrevia /\ SinMuestras /\ SinPerifericos
    \/ \E timestamp \in TiemposEstimulo :
           /\ RegistrarEstimulo(timestamp)
           /\ SinContar /\ SinPrevia /\ SinMuestras /\ SinPerifericos /\ SinSombra
    \/ \E timestamp \in TiemposEstimulo :
           /\ RegistrarRespuesta(timestamp)
           /\ Len(contador'.latencias_respuesta) <= MaxRespuestas
           /\ SinContar /\ SinPrevia /\ SinMuestras /\ SinPerifericos /\ SinSombra

SpecEstimulos == Init /\ [][NextEstimulos]_vars

\* SpecIndependencia: two objects are called with the same timestamps.  The
\* first sees the awake or the drowsy scene; the second sees, channel by
\* channel, the awake or the drowsy reading, in any combination.  Runs are
\* followed for as long as the two have agreed on some channel on every call.
PasosIndependencia == {4, 20}
EscenasIndependencia ==
    {MedidasRostro(OjosCon(17), BocaCon(3), CabezaCon(400000, 600000), TRUE),
     MedidasRostro(OjosCon(0), BocaCon(7), CabezaCon(520000, 720000), TRUE)}
EscenasMezcladas ==
    {MedidasRostro(o, b, h, TRUE) :
        o \in {OjosCon(17), OjosCon(0)},
        b \in {BocaCon(3), BocaCon(7)},
        h \in {CabezaCon(400000, 600000), CabezaCon(520000, 720000)}}

NextIndependencia ==
    \E timestamp \in Timestamps(PasosIndependencia, 4 * MaxTime),
       medidas \in EscenasIndependencia, medidas2 \in EscenasMezcladas :
        /\ Contar(MaxLlamadasIndependencia)
        /\ sombra.coinciden \cap CanalesIguales(medidas, medidas2) # {}
        /\ Actualizar(timestamp, medidas)
        /\ SeguirCon(timestamp, medidas, medidas2)
        /\ SinPrevia /\ SinMuestras /\ SinPerifericos

SpecIndependencia == Init /\ [][NextIndependencia]_vars

\* SpecContrato: snapshots that a truthful measurement provider does not
\* produce and that actualizar accepts all the same: the awake and the drowsy
\* scene with the face-presence flag false, and the drowsy scene with one
\* channel flagged valid and its reading missing; the awake and the drowsy
\* scene themselves come in between.
PasosContrato == {4, 20}
EscenasContrato ==
    {MedidasRostro(OjosCon(17), BocaCon(3), CabezaCon(400000, 600000), TRUE),
     MedidasRostro(OjosCon(0), BocaCon(7), CabezaCon(520000, 720000), TRUE),
     MedidasRostro(OjosCon(17), BocaCon(3), CabezaCon(400000, 600000), FALSE),
     MedidasRostro(OjosCon(0), BocaCon(7), CabezaCon(520000, 720000), FALSE),
     MedidasRostro(OjosSinEar, BocaCon(7), CabezaCon(520000, 720000), TRUE),
     MedidasRostro(OjosCon(0), BocaSinMar, CabezaCon(520000, 720000), TRUE),
     MedidasRostro(OjosCon(0), BocaCon(7), CabezaSinAlturas, TRUE)}

NextContrato ==
    \E timestamp \in Timestamps(PasosContrato, 4 * MaxTime),
       medidas \in EscenasContrato :
        /\ Actualizar(timestamp, medidas)
        /\ Contar(MaxLlamadasContrato) /\ SinPrevia /\ SinMuestras /\ SinPerifericos /\ SinSombra

SpecContrato == Init /\ [][NextContrato]_vars

(***************************************************************************)
(* Properties.  In an action formula the unprimed contador is the object   *)
(* before the call, the primed one the object after it, salida' the result *)
(* the call returns and traza' its input and dt.                           *)
(***************************************************************************)
Eventos == Val(salida).eventos
Atencion == Val(salida).atencion
OjosPrevios == contador.estado_ojos
SeReabre ==
    /\ contador.estado_ojos.estado = "cerrado"
    /\ contador'.estado_ojos.estado = "abierto"
ParpadeosSinCambio ==
    /\ contador'.conteo_parpadeos_total = contador.conteo_parpadeos_total
    /\ contador'.historial_interparpadeos = contador.historial_interparpadeos
    /\ contador'.ultimo_parpadeo_timestamp = contador.ultimo_parpadeo_timestamp

\* C1: a call reports a blink only if on that call the eye state went from
\* closed to open, the closed run that ended lasted between 0.10 s and
\* 0.40 s, and no blink fired before or the call's timestamp is at least
\* 0.25 s after the timestamp of the last fired blink.
C1_ParpadeoSoloSi ==
    [][Eventos'.parpadeo =>
        /\ SeReabre
        /\ OjosPrevios.duracion_estado >= DUR_MIN_PARPADEO
        /\ OjosPrevios.duracion_estado <= DUR_MAX_PARPADEO
        /\ \/ contador.ultimo_parpadeo_timestamp = None
           \/ Val(salida').timestamp - Val(contador.ultimo_parpadeo_timestamp)
                >= TIEMPO_REFRACTARIO_PARPADEO]_vars

\* a second blink was just reported, exactly 0.25 s after the first
C1_Witness ==
    /\ salida # None
    /\ Eventos.parpadeo
    /\ contador.conteo_parpadeos_total = 2
    /\ contador.historial_interparpadeos = <<TIEMPO_REFRACTARIO_PARPADEO>>

\* C2: a closed run of at least 1.0 s that ends by reopening reports a
\* microsleep and no blink, adds one to the microsleep counter and leaves
\* the blink counter, the inter-blink history and the last-blink timestamp
\* alone; no call reports both a blink and a microsleep.
C2_Microsueno ==
    [][/\ (SeReabre /\ OjosPrevios.duracion_estado >= DUR_MIN_MICROSUENO) =>
            /\ Eventos'.microsueno
            /\ ~Eventos'.parpadeo
            /\ contador'.conteo_microsuenos_total
                 = contador.conteo_microsuenos_total + 1
            /\ ParpadeosSinCambio
       /\ ~(Eventos'.parpadeo /\ Eventos'.microsueno)]_vars

\* a microsleep was just reported for a run of exactly 1.0 s, with blinks
\* and an inter-blink interval already on record
C2_Witness ==
    /\ salida # None
    /\ Eventos.microsueno
    /\ traza.estado_previo = "cerrado"
    /\ traza.duracion_previa = DUR_MIN_MICROSUENO
    /\ contador.conteo_parpadeos_total >= 2
    /\ Len(contador.historial_interparpadeos) >= 1

\* C3: a closed run that ends by reopening after more than 0.40 s and less
\* than 1.0 s, or after less than 0.10 s, reports neither a blink nor a
\* microsleep and changes no counter, history or last-blink timestamp.
C3_ZonaMuerta ==
    [][(/\ SeReabre
        /\ \/ /\ OjosPrevios.duracion_estado > DUR_MAX_PARPADEO
              /\ OjosPrevios.duracion_estado < DUR_MIN_MICROSUENO
           \/ OjosPrevios.duracion_estado < DUR_MIN_PARPADEO) =>
            /\ ~Eventos'.parpadeo
            /\ ~Eventos'.microsueno
            /\ contador'.conteo_microsuenos_total = contador.conteo_microsuenos_total
            /\ ParpadeosSinCambio]_vars

\* the eyes just reopened after 0.45 s closed, one blink being on record
C3_Witness ==
    /\ salida # None
    /\ traza.estado_previo = "cerrado"
    /\ contador.estado_ojos.estado = "abierto"
    /\ traza.duracion_previa = DUR_MAX_PARPADEO + 1
    /\ contador.conteo_parpadeos_total = 1
    /\ ~Eventos.parpadeo /\ ~Eventos.microsueno

\* C4: once the microsleep counter is above 0 it stays above 0 and every
\* call returns attention low at level 0.2.
C4_BajaParaSiempre ==
    [][/\ contador.conteo_microsuenos_total > 0 =>
            contador'.conteo_microsuenos_total > 0
       /\ contador'.conteo_microsuenos_total > 0 =>
            /\ Atencion'.categoria = "baja"
            /\ Atencion'.nivel = NIVEL_BAJA]_vars

\* attention is low although three short inter-blink intervals are on record
C4_Witness ==
    /\ salida # None
    /\ contador.conteo_microsuenos_total > 0
    /\ Len(contador.historial_interparpadeos) >= 3
    /\ SumSeq(contador.historial_interparpadeos)
         <= INTERPARPADEO_ATENCION_BAJA * Len(contador.historial_interparpadeos)
    /\ Atencion.categoria = "baja"

\* C5: the attention a call returns is decided by the microsleep counter and
\* the inter-blink history after the call, in this order: counter above 0,
\* (0.2, low); else three or more intervals of mean above 8.0 s, (0.5,
\* medium); else three or more intervals, (0.9, high); else (0.8, medium).
\* The level is one of 0.2, 0.5, 0.8, 0.9.
C5_NivelEsperado ==
    LET h == contador.historial_interparpadeos
    IN  IF contador.conteo_microsuenos_total > 0 THEN <<2, "baja">>
        ELSE IF Len(h) >= 3 /\ SumSeq(h) > 160 * Len(h) THEN <<5, "media">>
        ELSE IF Len(h) >= 3 THEN <<9, "alta">>
        ELSE <<8, "media">>

C5_Atencion ==
    salida # None =>
        /\ <<Atencion.nivel, Atencion.categoria>> = C5_NivelEsperado
        /\ Atencion.nivel \in {2, 5, 8, 9}
        /\ 0 <= Atencion.nivel /\ Atencion.nivel <= 10

\* three intervals of mean above 8.0 s gave (0.5, medium)
C5_Witness ==
    /\ salida # None
    /\ Len(contador.historial_interparpadeos) = 3
    /\ Atencion.nivel = 5

\* C6: on a frame with a valid EAR, from unknown or open the state becomes
\* closed if the filtered EAR is below 0.18 and open otherwise; from closed
\* it becomes open if the filtered EAR is above 0.22 and stays closed
\* otherwise.  With the filtered EAR in [0.18, 0.22] an open or closed state
\* does not change.
C6_Histeresis ==
    [][(/\ Val(traza'.medidas).medidas_ojos.valido
        /\ Val(traza'.medidas).medidas_ojos.ear_promedio # None) =>
        LET ear == Val(contador'.ear_filtrado)
            antes == contador.estado_ojos.estado
            despues == contador'.estado_ojos.estado
        IN  /\ antes \in {"desconocido", "abierto"} =>
                despues = (IF ear < 9 THEN "cerrado" ELSE "abierto")
            /\ antes = "cerrado" =>
                despues = (IF ear > 11 THEN "abierto" ELSE "cerrado")
            /\ (antes # "desconocido" /\ 9 <= ear /\ ear <= 11) =>
                despues = antes]_vars

\* the eyes are still closed with the filtered EAR at 0.22
C6_Witness ==
    /\ contador.estado_ojos.estado = "cerrado"
    /\ contador.estado_ojos.ear_actual = Some(UMBRAL_EAR_ABRIR)
    /\ contador.estado_ojos.duracion_estado > 0

\* C7: a call reports a yawn exactly when its mouth channel is valid with
\* MAR below 0.6, the mouth was marked open before the call and the open
\* time is at least 1.0 s; the yawn adds one to the yawn counter; every
\* valid frame with MAR below 0.6 that finds the mouth marked open resets the
\* open time to 0 and marks the mouth closed, yawn or not.
C7_Bostezo ==
    [][LET boca == Val(traza'.medidas).medidas_boca
           cierra == /\ boca.valido
                     /\ boca.mar # None
                     /\ Val(boca.mar) < 6
                     /\ contador.boca_abierta
       IN  /\ Eventos'.bostezo <=> (cierra /\ contador.tiempo_boca_abierta >= 20)
           /\ Eventos'.bostezo =>
                contador'.conteo_bostezos_total = contador.conteo_bostezos_total + 1
           /\ cierra => /\ contador'.tiempo_boca_abierta = 0
                        /\ ~contador'.boca_abierta]_vars

\* a second yawn was just reported
C7_Witness ==
    /\ salida # None
    /\ Eventos.bostezo
    /\ contador.conteo_bostezos_total = 2

\* an open run of 0.95 s was just closed without a yawn
C7_WitnessCorto ==
    /\ salida # None
    /\ ~Eventos.bostezo
    /\ Val(traza.medidas).medidas_boca = BocaCon(3)
    /\ ~contador.boca_abierta
    /\ Val(salida).timestamp = DUR_MIN_BOSTEZO - 1
    /\ Val(traza.dt) = 0

\* C8: a call reports a head-nod exactly when its head channel is valid, the
\* baseline was already set, nose and chin are both more than 0.10 below the
\* baseline the call found, the head-down time plus dt is at least 1.0 s and
\* the active flag was false; that call sets the active flag and adds one to
\* the nod counter.  The active flag is cleared only by a valid frame on
\* which the head is not down, so such a frame lies between two nods.
C8_Cabeceo ==
    [][LET cabeza == Val(traza'.medidas).medidas_cabeza
           con_baseline == /\ cabeza.valido
                           /\ contador.baseline_altura_nariz # None
                           /\ contador.baseline_altura_menton # None
           abajo == /\ con_baseline
                    /\ Val(cabeza.altura_relativa_nariz)
                         - Val(contador.baseline_altura_nariz) > 100000
                    /\ Val(cabeza.altura_relativa_menton)
                         - Val(contador.baseline_altura_menton) > 100000
       IN  /\ Eventos'.cabeceo <=>
                /\ abajo
                /\ contador.tiempo_cabeza_abajo + Val(traza'.dt) >= 20
                /\ ~contador.cabeceo_activo
           /\ Eventos'.cabeceo =>
                /\ contador'.cabeceo_activo
                /\ contador'.conteo_cabeceos_total
                     = contador.conteo_cabeceos_total + 1
           /\ (contador.cabeceo_activo /\ ~contador'.cabeceo_activo) =>
                (con_baseline /\ ~abajo)]_vars

\* a second head-nod was just reported
C8_Witness ==
    /\ salida # None
    /\ Eventos.cabeceo
    /\ contador.conteo_cabeceos_total = 2

\* C9: dt is 0 on the first call and max(0, timestamp - previous timestamp)
\* afterwards, never negative; the eye, mouth and head updates all advance by
\* this dt, and the attention estimate sees their result.
C9_Dt ==
    [][LET dt == Val(traza'.dt)
           m == Val(traza'.medidas)
       IN  /\ dt = (IF contador.ultimo_timestamp = None THEN 0
                    ELSE IF Val(salida').timestamp >= Val(contador.ultimo_timestamp)
                         THEN Val(salida').timestamp - Val(contador.ultimo_timestamp)
                         ELSE 0)
           /\ dt >= 0
           /\ (m.medidas_ojos.valido
                 /\ contador'.estado_ojos.estado = contador.estado_ojos.estado) =>
                contador'.estado_ojos.duracion_estado
                  = contador.estado_ojos.duracion_estado + dt
           /\ (m.medidas_ojos.valido
                 /\ contador'.estado_ojos.estado # contador.estado_ojos.estado) =>
                contador'.estado_ojos.duracion_estado = dt
           /\ (m.medidas_boca.valido /\ Val(m.medidas_boca.mar) >= 6) =>
                contador'.tiempo_boca_abierta = contador.tiempo_boca_abierta + dt
           /\ (m.medidas_cabeza.valido /\ contador'.tiempo_cabeza_abajo # 0) =>
                contador'.tiempo_cabeza_abajo = contador.tiempo_cabeza_abajo + dt
           /\ Eventos'.microsueno => Atencion'.categoria = "baja"]_vars

\* a call with an earlier timestamp than the one before got dt = 0 while the
\* eyes were closed, the mouth open and the head down
C9_Witness ==
    /\ salida # None
    /\ traza.timestamp_previo # None
    /\ Val(salida).timestamp < Val(traza.timestamp_previo)
    /\ Val(traza.dt) = 0
    /\ contador.estado_ojos.estado = "cerrado"
    /\ contador.estado_ojos.duracion_estado > 0
    /\ contador.tiempo_boca_abierta > 0
    /\ contador.tiempo_cabeza_abajo > 0

\* C10: on every call each of the four counters grows by 1 if the call's
\* result has the matching flag and is unchanged otherwise; each total of
\* obtener_estadisticas is the number of calls so far with that flag.
Sube(despues, antes, flag) == despues = antes + (IF flag THEN 1 ELSE 0)

C10_Conteos ==
    [][/\ Sube(contador'.conteo_parpadeos_total,
               contador.conteo_parpadeos_total, Eventos'.parpadeo)
       /\ Sube(contador'.conteo_microsuenos_total,
               contador.conteo_microsuenos_total, Eventos'.microsueno)
       /\ Sube(contador'.conteo_bostezos_total,
               contador.conteo_bostezos_total, Eventos'.bostezo)
       /\ Sube(contador'.conteo_cabeceos_total,
               contador.conteo_cabeceos_total, Eventos'.cabeceo)
       /\ ObtenerEstadisticas(contador') =
            [parpadeos_total |-> traza'.vistos.parpadeo,
             microsuenos_total |-> traza'.vistos.microsueno,
             bostezos_total |-> traza'.vistos.bostezo,
             cabeceos_total |-> traza'.vistos.cabeceo]]_vars

\* every kind of event has been counted
C10_Witness ==
    /\ salida # None
    /\ contador.conteo_parpadeos_total >= 1
    /\ contador.conteo_microsuenos_total >= 1
    /\ contador.conteo_bostezos_total >= 1
    /\ contador.conteo_cabeceos_total >= 1

\* C11: when a call repeats the timestamp and the measurement of the call
\* before it, every event flag that the first call reported is false in the
\* second call's result, and the second call adds nothing to the eye-state
\* duration, the mouth-open accumulator or the head-down timer: each is what
\* it was or has been reset to 0.
LlamadaRepetida ==
    /\ salida # None
    /\ salida' # None
    /\ Val(salida').timestamp = Val(salida).timestamp
    /\ traza'.medidas = traza.medidas

C11_Idempotencia ==
    [][LlamadaRepetida =>
        /\ \A f \in DOMAIN EventosSomnolencia : Eventos[f] => ~Eventos'[f]
        /\ Val(traza'.dt) = 0
        /\ contador'.estado_ojos.duracion_estado =
             IF contador'.estado_ojos.estado = contador.estado_ojos.estado
             THEN contador.estado_ojos.duracion_estado ELSE 0
        /\ contador'.tiempo_boca_abierta \in {contador.tiempo_boca_abierta, 0}
        /\ contador'.tiempo_cabeza_abajo \in {contador.tiempo_cabeza_abajo, 0}]_vars

\* the frame that confirmed a nod was fed again: the nod is not reported a
\* second time and the head-down timer stays at its value
C11_Witness ==
    /\ salida # None
    /\ previa.salida # None
    /\ previa.medidas = traza.medidas
    /\ Val(previa.salida).timestamp = Val(salida).timestamp
    /\ Val(previa.salida).eventos.cabeceo
    /\ ~Eventos.cabeceo
    /\ contador.conteo_cabeceos_total = 1
    /\ contador.tiempo_cabeza_abajo >= DUR_MIN_CABECEO
    /\ contador.estado_ojos.duracion_estado > 0

\* C12: the inter-blink history never holds more than 100 entries; when a
\* blink pushes a new interval onto a history of 100, the oldest entry is the
\* one removed, the other 99 keep their order and the new interval is last.
Historial == contador.historial_interparpadeos

C12_HistorialAcotado ==
    [][/\ Len(Historial') <= MAX_HISTORIAL
       /\ (Len(Historial) = MAX_HISTORIAL /\ Eventos'.parpadeo) =>
            /\ Len(Historial') = MAX_HISTORIAL
            /\ \A i \in 1..(MAX_HISTORIAL - 1) : Historial'[i] = Historial[i + 1]
            /\ Historial'[MAX_HISTORIAL] =
                 Val(salida').timestamp - Val(contador.ultimo_parpadeo_timestamp)]_vars

\* a blink has just pushed an interval onto a full history for at least the
\* second time, and the history holds different intervals
C12_Witness ==
    /\ salida # None
    /\ Eventos.parpadeo
    /\ contador.conteo_parpadeos_total >= MAX_HISTORIAL + 3
    /\ Len(Historial) = MAX_HISTORIAL
    /\ Historial[1] # Historial[2]
    /\ Historial[MAX_HISTORIAL - 1] # Historial[MAX_HISTORIAL]

\* C13: in every reachable state, whatever the order of the timestamps, the
\* eye state is one of desconocido, abierto, cerrado, and the eye-state
\* duration, the mouth-open accumulator and the head-down timer are >= 0.
C13_EstadoYDuraciones ==
    /\ contador.estado_ojos.estado \in {"desconocido", "abierto", "cerrado"}
    /\ contador.estado_ojos.duracion_estado >= 0
    /\ contador.tiempo_boca_abierta >= 0
    /\ contador.tiempo_cabeza_abajo >= 0
    /\ salida # None =>
         /\ Val(salida).estado_ojos.estado \in {"desconocido", "abierto", "cerrado"}
         /\ Val(salida).estado_ojos.duracion_estado >= 0

\* a call whose timestamp lies before the previous one, made while the eyes
\* had been open for some time
C13_Witness ==
    /\ salida # None
    /\ traza.timestamp_previo # None
    /\ Val(salida).timestamp < Val(traza.timestamp_previo)
    /\ traza.estado_previo = "abierto"
    /\ traza.duracion_previa > 0
    /\ contador.estado_ojos.estado = "abierto"
    /\ contador.estado_ojos.duracion_estado = traza.duracion_previa

\* C14: on a call whose eye channel is absent (invalid, or valid without an
\* average EAR) the eye state becomes desconocido, neither a blink nor a
\* microsleep is reported, and the eye-state duration, the filter value, the
\* blink and microsleep counters, the inter-blink history and the last-blink
\* timestamp are what they were before the call.
OjosSinLectura(m) ==
    ~m.medidas_ojos.valido \/ m.medidas_ojos.ear_promedio = None

C14_OjosAusentes ==
    [][OjosSinLectura(Val(traza'.medidas)) =>
        /\ contador'.estado_ojos.estado = "desconocido"
        /\ Val(salida').estado_ojos.estado = "desconocido"
        /\ ~Eventos'.parpadeo
        /\ ~Eventos'.microsueno
        /\ contador'.estado_ojos.duracion_estado = contador.estado_ojos.duracion_estado
        /\ contador'.ear_filtrado = contador.ear_filtrado
        /\ contador'.conteo_parpadeos_total = contador.conteo_parpadeos_total
        /\ contador'.conteo_microsuenos_total = contador.conteo_microsuenos_total
        /\ contador'.historial_interparpadeos = contador.historial_interparpadeos
        /\ contador'.ultimo_parpadeo_timestamp = contador.ultimo_parpadeo_timestamp]_vars

\* the reading went missing on a channel flagged valid while the eyes were
\* closed, after a blink had been counted: time passed, and the duration of
\* the closed run and the filter value are still there
C14_Witness ==
    /\ salida # None
    /\ Val(traza.medidas).medidas_ojos = OjosSinEar
    /\ Val(traza.dt) > 0
    /\ traza.estado_previo = "cerrado"
    /\ contador.estado_ojos.estado = "desconocido"
    /\ contador.estado_ojos.duracion_estado > 0
    /\ contador.ear_filtrado # None
    /\ contador.conteo_parpadeos_total >= 1

\* C15: on a call whose mouth channel is absent (invalid, or valid without a
\* MAR) no yawn is reported and the mouth-open flag, the mouth-open
\* accumulator and the yawn counter are what they were before the call;
\* the accumulator is frozen, not reset.
C15_BocaAusente ==
    [][BocaSinDatos(Val(traza'.medidas)) =>
        /\ ~Eventos'.bostezo
        /\ contador'.boca_abierta = contador.boca_abierta
        /\ contador'.tiempo_boca_abierta = contador.tiempo_boca_abierta
        /\ contador'.conteo_bostezos_total = contador.conteo_bostezos_total]_vars

\* a frame flagged valid but without a MAR arrived 0.45 s or more after the
\* previous call, during an open run: the run is still open and still has
\* the duration it had
C15_Witness ==
    /\ salida # None
    /\ Val(traza.medidas).medidas_boca = BocaSinMar
    /\ Val(traza.dt) >= 9
    /\ contador.boca_abierta
    /\ contador.tiempo_boca_abierta > 0
    /\ contador.conteo_bostezos_total >= 1
    /\ ~Eventos.bostezo

\* C16: on a call whose head channel is invalid no nod is reported and the
\* nose and chin baselines, the head-down timer, the active flag and the nod
\* counter are what they were before the call.
C16_CabezaInvalida ==
    [][~Val(traza'.medidas).medidas_cabeza.valido =>
        /\ ~Eventos'.cabeceo
        /\ contador'.baseline_altura_nariz = contador.baseline_altura_nariz
        /\ contador'.baseline_altura_menton = contador.baseline_altura_menton
        /\ contador'.tiempo_cabeza_abajo = contador.tiempo_cabeza_abajo
        /\ contador'.cabeceo_activo = contador.cabeceo_activo
        /\ contador'.conteo_cabeceos_total = contador.conteo_cabeceos_total]_vars

\* the head channel went invalid while a confirmed nod was still held: time
\* passed, and the baseline, the timer and the active flag are still there
C16_Witness ==
    /\ salida # None
    /\ ~Val(traza.medidas).medidas_cabeza.valido
    /\ Val(traza.dt) > 0
    /\ contador.baseline_altura_nariz # None
    /\ contador.baseline_altura_menton # None
    /\ contador.cabeceo_activo
    /\ contador.tiempo_cabeza_abajo >= DUR_MIN_CABECEO
    /\ contador.conteo_cabeceos_total >= 1
    /\ ~Eventos.cabeceo

\* C17: on a call whose measurement has rostro_presente false, the three
\* channels count as absent whatever their valid flags say: the eye state
\* becomes desconocido, no event is reported, and the mouth and head tracker
\* fields are what they were before the call.
EstadoBoca(c) ==
    <<c.boca_abierta, c.tiempo_boca_abierta, c.conteo_bostezos_total>>

EstadoCabeza(c) ==
    <<c.baseline_altura_nariz, c.baseline_altura_menton, c.tiempo_cabeza_abajo,
      c.cabeceo_activo, c.conteo_cabeceos_total>>

C17_SinRostro ==
    [][~Val(traza'.medidas).rostro_presente =>
        /\ contador'.estado_ojos.estado = "desconocido"
        /\ Eventos' = EventosSomnolencia
        /\ EstadoBoca(contador') = EstadoBoca(contador)
        /\ EstadoCabeza(contador') = EstadoCabeza(contador)]_vars

\* C18: a call whose measurement has a channel flagged valid with its reading
\* missing fails at the boundary: it returns no result, and no field of the
\* object is updated and no value is put in place of the missing one.
Malformada(m) ==
    \/ m.medidas_ojos.valido /\ m.medidas_ojos.ear_promedio = None
    \/ m.medidas_boca.valido /\ m.medidas_boca.mar = None
    \/ /\ m.medidas_cabeza.valido
       /\ \/ m.medidas_cabeza.altura_relativa_nariz = None
          \/ m.medidas_cabeza.altura_relativa_menton = None

C18_FallaRapido ==
    [][Malformada(Val(traza'.medidas)) =>
        /\ contador' = contador
        /\ salida' = salida]_vars

\* C19: a call of registrar_respuesta made while no stimulus is pending (none
\* was ever registered, or a response has consumed the last one) returns
\* after logging a warning and leaves the latency history, the last response
\* time and the pending-stimulus slot, like every other field, as they were.
C19_RespuestaSinEstimulo ==
    [][(traza'.operacion = "registrar_respuesta" /\ contador.ultimo_estimulo = None) =>
        /\ traza'.advertencia
        /\ contador'.latencias_respuesta = contador.latencias_respuesta
        /\ contador'.ultimo_tiempo_respuesta = contador.ultimo_tiempo_respuesta
        /\ contador'.ultimo_estimulo = None
        /\ contador' = contador
        /\ salida' = salida]_vars

\* a second response arrived, at another time, after the first one had
\* consumed the stimulus: one latency is recorded and the last response time
\* is still that of the first response
C19_Witness ==
    /\ traza.operacion = "registrar_respuesta"
    /\ traza.advertencia
    /\ contador.ultimo_estimulo = None
    /\ Len(contador.latencias_respuesta) = 1
    /\ contador.ultimo_tiempo_respuesta # None
    /\ contador.ultimo_tiempo_respuesta # traza.timestamp

\* C20: of two runs with the same calls of actualizar, one of them with calls
\* of registrar_estimulo and registrar_respuesta interleaved, both have the
\* same results of actualizar (events, eye state, attention) and the same
\* detection fields and cumulative counters after every step; and in the
\* run with the stimulus channel a response to a pending stimulus appends
\* max(0, response time - stimulus time) to the latency history, stores the
\* response time and clears the pending stimulus.
Deteccion(c) ==
    [c EXCEPT !.ultimo_estimulo = None,
              !.ultimo_tiempo_respuesta = None,
              !.latencias_respuesta = <<>>]

C20_NoInterferencia ==
    [][/\ salida' = sombra'.salida
       /\ Deteccion(contador') = Deteccion(sombra'.contador)
       /\ ObtenerEstadisticas(contador') = ObtenerEstadisticas(sombra'.contador)
       /\ (traza'.operacion = "registrar_respuesta" /\ contador.ultimo_estimulo # None) =>
            /\ contador'.latencias_respuesta =
                 Append(contador.latencias_respuesta,
                        Max(0, Val(traza'.timestamp) - Val(contador.ultimo_estimulo)))
            /\ contador'.ultimo_tiempo_respuesta = traza'.timestamp
            /\ contador'.ultimo_estimulo = None]_vars

\* a call of actualizar reported a yawn after a response 0.4 s late had been
\* recorded and while another stimulus was pending; the object that saw no
\* stimulus call returned the same result
C20_Witness ==
    /\ salida # None
    /\ traza.operacion = "actualizar"
    /\ Eventos.bostezo
    /\ contador.latencias_respuesta = <<8>>
    /\ contador.ultimo_estimulo # None
    /\ sombra.salida = salida
    /\ sombra.contador.latencias_respuesta = <<>>
    /\ sombra.contador.ultimo_estimulo = None

\* C21: once the baseline is set, every frame of a constant head reading
\* whose nose and chin offsets from the baseline are both below 0.10 reports
\* no nod and leaves the head-down timer at 0, and the distance between the
\* baseline and the reading, for the nose and for the chin, is smaller after
\* the frame than before it; this for 1000 frames in a row.
Dist(a, b) == IF a >= b THEN a - b ELSE b - a

LecturaCabeza(m) ==
    <<Val(m.medidas_cabeza.altura_relativa_nariz),
      Val(m.medidas_cabeza.altura_relativa_menton)>>

C21_DerivaLenta ==
    [][(/\ contador.baseline_altura_nariz # None
        /\ contador.baseline_altura_menton # None
        /\ llamadas' = llamadas + 1
        /\ llamadas >= 2 => traza'.medidas = traza.medidas) =>
       LET lectura == LecturaCabeza(Val(traza'.medidas))
       IN  /\ lectura[1] - Val(contador.baseline_altura_nariz) < UMBRAL_DELTA
           /\ lectura[2] - Val(contador.baseline_altura_menton) < UMBRAL_DELTA
           /\ ~Eventos'.cabeceo
           /\ contador'.tiempo_cabeza_abajo = 0
           /\ contador'.conteo_cabeceos_total = 0
           /\ Dist(lectura[1], Val(contador'.baseline_altura_nariz))
                < Dist(lectura[1], Val(contador.baseline_altura_nariz))
           /\ Dist(lectura[2], Val(contador'.baseline_altura_menton))
                < Dist(lectura[2], Val(contador.baseline_altura_menton))]_vars

\* the thousandth frame of a reading 0.099999 below the first baseline: no
\* nod was ever counted, and the baseline has come to within 0.001 of the
\* reading without reaching it
C21_Witness ==
    /\ salida # None
    /\ llamadas = MaxFramesDeriva + 1
    /\ LecturaCabeza(Val(traza.medidas)) =
         <<PoseInicialDeriva[1] + 99999, PoseInicialDeriva[2] + 99999>>
    /\ contador.conteo_cabeceos_total = 0
    /\ contador.tiempo_cabeza_abajo = 0
    /\ Dist(PoseInicialDeriva[1] + 99999, Val(contador.baseline_altura_nariz)) \in 1..1000

\* C22: of two runs with the same timestamps, as long as they have agreed on
\* the eye channel of every frame they have the same eye state, blink and
\* microsleep flags and counters, inter-blink history and attention estimate,
\* whatever their mouth and head channels; as long as they have agreed on
\* the mouth channel, the same yawn flag and counter; as long as they have
\* agreed on the head channel, the same nod flag and counter.
SalidaOjos(c, s) ==
    <<c.estado_ojos, c.ear_filtrado, c.conteo_parpadeos_total,
      c.conteo_microsuenos_total, c.historial_interparpadeos,
      c.ultimo_parpadeo_timestamp,
      s.estado_ojos, s.eventos.parpadeo, s.eventos.microsueno, s.atencion>>

SalidaBoca(c, s) ==
    <<c.boca_abierta, c.tiempo_boca_abierta, c.conteo_bostezos_total,
      s.eventos.bostezo>>

SalidaCabeza(c, s) ==
    <<c.cabeceo_activo, c.tiempo_cabeza_abajo, c.conteo_cabeceos_total,
      c.baseline_altura_nariz, c.baseline_altura_menton, s.eventos.cabeceo>>

C22_SinEstadoCompartido ==
    (salida # None /\ sombra.salida # None) =>
        /\ "ojos" \in sombra.coinciden =>
             SalidaOjos(contador, Val(salida)) =
                SalidaOjos(sombra.contador, Val(sombra.salida))
        /\ "boca" \in sombra.coinciden =>
             SalidaBoca(contador, Val(salida)) =
                SalidaBoca(sombra.contador, Val(sombra.salida))
        /\ "cabeza" \in sombra.coinciden =>
             SalidaCabeza(contador, Val(salida)) =
                SalidaCabeza(sombra.contador, Val(sombra.salida))

\* the two runs agreed on the mouth channel alone: both report the yawn on
\* this call, while one has counted a nod and a closed run and the other has
\* not
C22_Witness ==
    /\ salida # None
    /\ sombra.coinciden = {"boca"}
    /\ Eventos.bostezo
    /\ Val(sombra.salida).eventos.bostezo
    /\ contador.conteo_cabeceos_total # sombra.contador.conteo_cabeceos_total
    /\ contador.estado_ojos # sombra.contador.estado_ojos

\* C23: when a closed run that lasted between 0.10 s and 0.40 s ends by
\* reopening, then, if no blink fired before or the call's timestamp is at
\* least 0.25 s after that of the last fired blink, the call reports a
\* blink, adds exactly one to the blink counter, appends (timestamp - last
\* blink timestamp) to the inter-blink history if and only if there is a
\* last blink timestamp, and makes the call's timestamp the last blink
\* timestamp; otherwise (refractory period) no blink is reported and the
\* counter, the history and the last blink timestamp are unchanged.
C23_ParpadeoRegistrado ==
    [][(/\ SeReabre
        /\ OjosPrevios.duracion_estado >= DUR_MIN_PARPADEO
        /\ OjosPrevios.duracion_estado <= DUR_MAX_PARPADEO) =>
       LET ts == Val(salida').timestamp
           ultimo == contador.ultimo_parpadeo_timestamp
       IN  IF ultimo = None \/ ts - Val(ultimo) >= TIEMPO_REFRACTARIO_PARPADEO
           THEN /\ Eventos'.parpadeo
                /\ contador'.conteo_parpadeos_total =
                     contador.conteo_parpadeos_total + 1
                /\ contador'.historial_interparpadeos =
                     IF ultimo = None
                     THEN contador.historial_interparpadeos
                     ELSE Append(contador.historial_interparpadeos, ts - Val(ultimo))
                /\ contador'.ultimo_parpadeo_timestamp = Some(ts)
           ELSE /\ ~Eventos'.parpadeo
                /\ ParpadeosSinCambio]_vars

\* a second blink was just reported more than 0.25 s after the first: the
\* interval between the two is in the history and the call's timestamp is
\* the last blink timestamp
C23_Witness ==
    /\ salida # None
    /\ Eventos.parpadeo
    /\ contador.conteo_parpadeos_total = 2
    /\ Len(contador.historial_interparpadeos) = 1
    /\ contador.historial_interparpadeos[1] > TIEMPO_REFRACTARIO_PARPADEO
    /\ contador.ultimo_parpadeo_timestamp = Some(Val(salida).timestamp)

\* C24: on a frame with an eye reading, if the classified state is the state
\* before the call the duration grows by exactly dt and neither a blink nor
\* a microsleep is reported; if it differs the duration of the new state is
\* dt; and a call made while the state is open reports neither a blink nor a
\* microsleep, however long the open run was.
C24_DuracionEstado ==
    [][/\ ~OjosSinLectura(Val(traza'.medidas)) =>
            IF contador'.estado_ojos.estado = contador.estado_ojos.estado
            THEN /\ contador'.estado_ojos.duracion_estado =
                      contador.estado_ojos.duracion_estado + Val(traza'.dt)
                 /\ ~Eventos'.parpadeo
                 /\ ~Eventos'.microsueno
            ELSE contador'.estado_ojos.duracion_estado = Val(traza'.dt)
       /\ contador.estado_ojos.estado = "abierto" =>
            ~Eventos'.parpadeo /\ ~Eventos'.microsueno]_vars

\* an open run of 0.45 s or more, a blink's length or a microsleep's, has
\* just ended by closing, 0.10 s or more after the frame before: the closed
\* state starts with that dt as its duration and nothing is reported
C24_Witness ==
    /\ salida # None
    /\ traza.estado_previo = "abierto"
    /\ traza.duracion_previa >= 9
    /\ contador.estado_ojos.estado = "cerrado"
    /\ Val(traza.dt) > 0
    /\ contador.estado_ojos.duracion_estado = Val(traza.dt)
    /\ ~Eventos.parpadeo
    /\ ~Eventos.microsueno


\* C25: the first valid EAR sample sets the filtered value to the sample
\* itself; every later valid sample sets it to the average of the filtered
\* value so far and the sample (to the nearest grid step); the filtered value
\* lies between the smallest and the largest valid raw sample seen so far;
\* a frame without an eye reading leaves the filter as it was.
C25_SuavizadoEar ==
    [][LET ear_crudo == EarCrudo(Val(traza'.medidas))
       IN  /\ ear_crudo = None => contador'.ear_filtrado = contador.ear_filtrado
           /\ (ear_crudo # None /\ contador.ear_filtrado = None) =>
                 contador'.ear_filtrado = ear_crudo
           /\ (ear_crudo # None /\ contador.ear_filtrado # None) =>
                 /\ contador'.ear_filtrado # None
                 /\ 2 * Val(contador'.ear_filtrado)
                      - (Val(contador.ear_filtrado) + Val(ear_crudo)) \in {-1, 0, 1}
           /\ contador'.ear_filtrado # None =>
                 /\ muestras'.minimo # None
                 /\ Val(muestras'.minimo) <= Val(contador'.ear_filtrado)
                 /\ Val(contador'.ear_filtrado) <= Val(muestras'.maximo)]_vars

\* after eye readings 0.34 and 0.0 and then a frame without a reading (the
\* state went back to unknown), a reading of 0.26 arrives: the filter is the
\* average of what it held, 0.16, and 0.26, strictly inside the samples' range
C25_Witness ==
    /\ llamadas >= 4
    /\ traza.estado_previo = "desconocido"
    /\ EarCrudo(Val(traza.medidas)) = Some(13)
    /\ contador.ear_filtrado = Some(10)
    /\ muestras.minimo = Some(0)
    /\ muestras.maximo = Some(17)


\* C26: a valid head frame, with the baseline set, on which the nose or the
\* chin is not more than 0.10 below the baseline resets the head-down timer
\* to 0 and clears the active flag.  The timer grows only on a head-down
\* frame, by that frame's dt, and the active flag is cleared only by a frame
\* on which the head is not down; a nod is reported only with the flag
\* cleared and the timer, advanced by dt, at 1.0 s or more: after a nod the
\* next one needs a not-down frame and then 1.0 s of head-down time again.
C26_CabezaLevantada ==
    [][LET cabeza == Val(traza'.medidas).medidas_cabeza
           con_baseline == /\ cabeza.valido
                           /\ contador.baseline_altura_nariz # None
                           /\ contador.baseline_altura_menton # None
           abajo == /\ con_baseline
                    /\ Val(cabeza.altura_relativa_nariz)
                         - Val(contador.baseline_altura_nariz) > 100000
                    /\ Val(cabeza.altura_relativa_menton)
                         - Val(contador.baseline_altura_menton) > 100000
       IN  /\ (con_baseline /\ ~abajo) =>
                /\ contador'.tiempo_cabeza_abajo = 0
                /\ ~contador'.cabeceo_activo
           /\ contador'.tiempo_cabeza_abajo # contador.tiempo_cabeza_abajo =>
                \/ con_baseline /\ ~abajo
                \/ /\ abajo
                   /\ contador'.tiempo_cabeza_abajo =
                        contador.tiempo_cabeza_abajo + Val(traza'.dt)
           /\ (contador.cabeceo_activo /\ ~contador'.cabeceo_activo) =>
                (con_baseline /\ ~abajo)
           /\ (contador.cabeceo_activo /\ abajo) =>
                (contador'.cabeceo_activo /\ ~Eventos'.cabeceo)
           /\ Eventos'.cabeceo =>
                /\ abajo
                /\ ~contador.cabeceo_activo
                /\ contador'.tiempo_cabeza_abajo >= 20]_vars

\* after a first nod the head went up and down again: the second nod comes
\* on a frame 1.0 s after the one before, which takes the timer, restarted
\* from 0, to exactly 1.0 s
C26_Witness ==
    /\ salida # None
    /\ Eventos.cabeceo
    /\ contador.conteo_cabeceos_total = 2
    /\ contador.tiempo_cabeza_abajo = 20
    /\ Val(traza.dt) = 20


\* C27: a valid head frame that finds a baseline unset stores the frame's
\* nose and chin heights as the baselines, reports no head-nod and leaves
\* the head-down timer and the active flag as they were, whatever dt is; a
\* baseline that is set stays set.
C27_BaselineInicial ==
    [][LET cabeza == Val(traza'.medidas).medidas_cabeza
       IN  /\ (/\ cabeza.valido
               /\ \/ contador.baseline_altura_nariz = None
                  \/ contador.baseline_altura_menton = None) =>
                /\ contador'.baseline_altura_nariz = cabeza.altura_relativa_nariz
                /\ contador'.baseline_altura_menton = cabeza.altura_relativa_menton
                /\ ~Eventos'.cabeceo
                /\ contador'.tiempo_cabeza_abajo = contador.tiempo_cabeza_abajo
                /\ contador'.cabeceo_activo = contador.cabeceo_activo
                /\ contador'.conteo_cabeceos_total = contador.conteo_cabeceos_total
           /\ contador.baseline_altura_nariz # None =>
                contador'.baseline_altura_nariz # None
           /\ contador.baseline_altura_menton # None =>
                contador'.baseline_altura_menton # None]_vars

\* the first call had no face, the second, 1.0 s later, has the head at the
\* lowered pose: the pose is the baseline and nothing else moved
C27_Witness ==
    /\ llamadas = 2
    /\ previa.medidas # None
    /\ ~Val(previa.medidas).medidas_cabeza.valido
    /\ Val(traza.medidas).medidas_cabeza.valido
    /\ Val(traza.dt) = 20
    /\ contador.baseline_altura_nariz = Some(520000)
    /\ contador.baseline_altura_menton = Some(720000)
    /\ contador.tiempo_cabeza_abajo = 0
    /\ ~contador.cabeceo_activo
    /\ ~Eventos.cabeceo


\* C28: on a valid head frame that finds the baseline set, each baseline
\* becomes 0.995 of itself plus 0.005 of the reading when the active flag
\* was false at the start of the frame, head down or not, and is unchanged
\* when the flag was true.  Whether the frame counts as head-down (timer
\* advanced by dt) or not (timer 0) is decided by the deltas to the baseline
\* as it was before the frame.
C28_DerivaYActivo ==
    [][LET cabeza == Val(traza'.medidas).medidas_cabeza
           con_baseline == /\ cabeza.valido
                           /\ contador.baseline_altura_nariz # None
                           /\ contador.baseline_altura_menton # None
           nariz == Val(cabeza.altura_relativa_nariz)
           menton == Val(cabeza.altura_relativa_menton)
           abajo == /\ nariz - Val(contador.baseline_altura_nariz) > 100000
                    /\ menton - Val(contador.baseline_altura_menton) > 100000
       IN  con_baseline =>
             /\ IF contador.cabeceo_activo
                THEN /\ contador'.baseline_altura_nariz = contador.baseline_altura_nariz
                     /\ contador'.baseline_altura_menton = contador.baseline_altura_menton
                ELSE /\ contador'.baseline_altura_nariz =
                          Some(RoundDiv(995 * Val(contador.baseline_altura_nariz)
                                          + 5 * nariz, 1000))
                     /\ contador'.baseline_altura_menton =
                          Some(RoundDiv(995 * Val(contador.baseline_altura_menton)
                                          + 5 * menton, 1000))
             /\ IF abajo
                THEN contador'.tiempo_cabeza_abajo =
                        contador.tiempo_cabeza_abajo + Val(traza'.dt)
                ELSE contador'.tiempo_cabeza_abajo = 0]_vars

\* the baseline was <<0.40, 0.60>> and the head went 0.1004 lower: the frame
\* counted as head-down for its 0.5 s, without a nod yet, and the baseline
\* drifted by 0.000502, which leaves the reading less than 0.10 below it
C28_Witness ==
    /\ llamadas = 2
    /\ Val(traza.medidas).medidas_cabeza.valido
    /\ LecturaCabeza(Val(traza.medidas)) = <<500400, 700400>>
    /\ contador.baseline_altura_nariz = Some(400502)
    /\ contador.baseline_altura_menton = Some(600502)
    /\ contador.tiempo_cabeza_abajo = 10
    /\ ~contador.cabeceo_activo
    /\ 500400 - Val(contador.baseline_altura_nariz) <= 100000


\* C29: two objects built with different umbral_ear_cerrado and given the
\* same calls return the same value on every call (events, statistics,
\* attention) and hold the same eye state, filter, counters and history;
\* they differ in the stored threshold alone.
C29_UmbralNominalSinEfecto ==
    /\ contador.umbral_ear_cerrado # sombra.contador.umbral_ear_cerrado
    /\ salida = sombra.salida
    /\ [contador EXCEPT !.umbral_ear_cerrado = 0]
         = [sombra.contador EXCEPT !.umbral_ear_cerrado = 0]

\* a blink was just reported by both objects, with the filtered EAR at
\* 0.22 or more, which one object's nominal threshold calls closed and the
\* other's open
C29_Witness ==
    /\ salida # None
    /\ Eventos.parpadeo
    /\ Val(sombra.salida).eventos.parpadeo
    /\ contador.estado_ojos.estado = "abierto"
    /\ \/ /\ Val(contador.ear_filtrado) < contador.umbral_ear_cerrado
          /\ Val(contador.ear_filtrado) >= sombra.contador.umbral_ear_cerrado
       \/ /\ Val(contador.ear_filtrado) >= contador.umbral_ear_cerrado
          /\ Val(contador.ear_filtrado) < sombra.contador.umbral_ear_cerrado


\* the time of the blink that closed the j-th interval of the history: the
\* last blink's time less the intervals recorded after the j-th
TiempoDelParpadeo(c, j) ==
    Val(c.ultimo_parpadeo_timestamp)
      - SumSeq(SubSeq(c.historial_interparpadeos, j + 1,
                      Len(c.historial_interparpadeos)))

\* C30: every interval in the inter-blink history belongs to a blink that
\* occurred within the last ventana_interparpadeos_seg (60 s) before the
\* latest call; older intervals have been pruned.
C30_VentanaDeTiempo ==
    \A j \in 1..Len(contador.historial_interparpadeos) :
        Val(contador.ultimo_timestamp) - TiempoDelParpadeo(contador, j)
            <= VENTANA_INTERPARPADEOS_SEG


\* C31: a call of registrar_respuesta that finds a stimulus pending appends
\* exactly one latency, max(0, response time - stimulus time), dropping the
\* oldest one if that makes more than 50, and clears the pending stimulus; a
\* call of registrar_estimulo makes its time the pending stimulus, replacing
\* one that was pending, and leaves the latencies alone; the history changes
\* on no other call and never holds more than 50 latencies.
C31_LatenciasDeRespuesta ==
    [][LET latencias == contador.latencias_respuesta
           pendiente == contador.ultimo_estimulo
       IN  /\ (traza'.operacion = "registrar_respuesta" /\ pendiente # None) =>
                LET l == Append(latencias,
                                IF Val(traza'.timestamp) >= Val(pendiente)
                                THEN Val(traza'.timestamp) - Val(pendiente)
                                ELSE 0)
                IN  /\ contador'.latencias_respuesta =
                         IF Len(latencias) = 50 THEN Tail(l) ELSE l
                    /\ contador'.ultimo_estimulo = None
           /\ traza'.operacion = "registrar_estimulo" =>
                /\ contador'.ultimo_estimulo = traza'.timestamp
                /\ contador'.latencias_respuesta = latencias
           /\ contador'.latencias_respuesta # latencias =>
                (traza'.operacion = "registrar_respuesta" /\ pendiente # None)
           /\ Len(contador'.latencias_respuesta) <= 50]_vars

\* the history held 50 latencies, the oldest of them 0.4 s, and a response
\* 0.4 s before its stimulus arrived: the 0.4 s at the front is gone, 0 is
\* at the end, and no stimulus is pending
C31_Witness ==
    /\ traza.operacion = "registrar_respuesta"
    /\ ~traza.advertencia
    /\ traza.timestamp = Some(2)
    /\ contador.ultimo_estimulo = None
    /\ Len(contador.latencias_respuesta) = 50
    /\ contador.latencias_respuesta[1] = 0
    /\ contador.latencias_respuesta[50] = 0


\* the landmarks of a channel are all in the list of points
EnLista(puntos, indices) == \A i \in indices : i >= 0 /\ i < Cardinality(DOMAIN puntos)

\* C32: in the result of calcular_medidas every channel is valid with all its
\* numeric fields present or invalid with all of them None; a channel is
\* valid exactly when the face is present, points and resolution are given
\* and its own landmarks can be measured (eyes: the twelve eye landmarks in
\* the list and both eyes with corners apart; mouth: its four landmarks in
\* the list and the corners apart; head: nose and chin in the list and a
\* positive image height), whatever happens to the other channels; and
\* razones_no_valido is non-empty exactly when no channel is valid.
C32_CanalesDeMedidas ==
    medicion.medidas # None =>
      LET datos == Val(medicion.datos_rostro)
          m == Val(medicion.medidas)
          ojos == m.medidas_ojos
          boca == m.medidas_boca
          cabeza == m.medidas_cabeza
          disponible == /\ datos.rostro_presente
                        /\ datos.puntos_pixeles # None
                        /\ datos.resolucion # None
          puntos == Val(datos.puntos_pixeles)
      IN  /\ IF ojos.valido
             THEN /\ ojos.ear_izquierdo # None
                  /\ ojos.ear_derecho # None
                  /\ ojos.ear_promedio # None
             ELSE /\ ojos.ear_izquierdo = None
                  /\ ojos.ear_derecho = None
                  /\ ojos.ear_promedio = None
          /\ IF boca.valido
             THEN /\ boca.mar # None
                  /\ boca.apertura_vertical_pixeles # None
                  /\ boca.ancho_boca_pixeles # None
             ELSE /\ boca.mar = None
                  /\ boca.apertura_vertical_pixeles = None
                  /\ boca.ancho_boca_pixeles = None
          /\ IF cabeza.valido
             THEN /\ cabeza.altura_relativa_nariz # None
                  /\ cabeza.altura_relativa_menton # None
                  /\ cabeza.distancia_nariz_menton_pixeles # None
             ELSE /\ cabeza.altura_relativa_nariz = None
                  /\ cabeza.altura_relativa_menton = None
                  /\ cabeza.distancia_nariz_menton_pixeles = None
          /\ ojos.valido <=>
               /\ disponible
               /\ EnLista(puntos, {33, 160, 158, 133, 153, 144,
                                   362, 385, 387, 263, 373, 380})
               /\ puntos[33] # puntos[133]
               /\ puntos[362] # puntos[263]
          /\ boca.valido <=>
               /\ disponible
               /\ EnLista(puntos, {78, 308, 13, 14})
               /\ puntos[78] # puntos[308]
          /\ cabeza.valido <=>
               /\ disponible
               /\ EnLista(puntos, {1, 152})
               /\ Val(datos.resolucion)[2] > 0
          /\ m.razones_no_valido # <<>> <=>
               ~(ojos.valido \/ boca.valido \/ cabeza.valido)

\* a face of 468 points whose right eye has both corners on one pixel: the
\* eye channel is invalid, carries a message and no number, mouth and head
\* are valid with their numbers, and no reason is given
C32_Witness ==
    /\ medicion.medidas # None
    /\ Val(medicion.datos_rostro).rostro_presente
    /\ Val(medicion.datos_rostro).puntos_pixeles # None
    /\ Cardinality(DOMAIN Val(Val(medicion.datos_rostro).puntos_pixeles)) = 468
    /\ ~Val(medicion.medidas).medidas_ojos.valido
    /\ Val(medicion.medidas).medidas_ojos.mensaje_error # None
    /\ Val(medicion.medidas).medidas_ojos.ear_izquierdo = None
    /\ Val(medicion.medidas).medidas_boca.valido
    /\ Val(medicion.medidas).medidas_boca.mar = Some(7)
    /\ Val(medicion.medidas).medidas_cabeza.valido
    /\ Val(medicion.medidas).medidas_cabeza.altura_relativa_nariz = Some(520000)
    /\ Val(medicion.medidas).razones_no_valido = <<>>


\* the attempts, among the three the source offers, that open it and read
\* an initial frame
Logrados(fuente) == {k \in DOMAIN fuente : fuente[k] = "lee"}

\* C33: a call of iniciar makes at most MAX_REINTENTOS = 3 attempts and ends.
\* If the source opens and gives an initial frame on some attempt, the call
\* returns at the first such attempt with the handle open, having released
\* the handle of every failed attempt before it; if no attempt succeeds it
\* makes three, releases three handles, raises ErrorCapturaVideo and leaves
\* the handle None.  A call of leer_frame that finds the handle None raises
\* ErrorCapturaVideo and counts no frame, read or failed.
C33_IniciarConReintentos ==
    [][/\ capturador'.ultima.operacion = "iniciar" =>
            LET u == capturador'.ultima
            IN  /\ u.intentos >= 1
                /\ u.intentos <= 3
                /\ IF Logrados(u.fuente) # {}
                   THEN /\ ~u.excepcion
                        /\ \A k \in Logrados(u.fuente) : u.intentos <= k
                        /\ u.intentos \in Logrados(u.fuente)
                        /\ capturador'.captura # None
                        /\ Val(capturador'.captura).abierta
                        /\ u.liberadas = u.intentos - 1
                   ELSE /\ u.excepcion
                        /\ u.intentos = 3
                        /\ u.liberadas = 3
                        /\ capturador'.captura = None
       /\ (capturador'.ultima.operacion = "leer_frame" /\ capturador.captura = None) =>
            /\ capturador'.ultima.excepcion
            /\ ~capturador'.ultima.ok
            /\ capturador'.captura = None
            /\ capturador'.frames_leidos = capturador.frames_leidos
            /\ capturador'.frames_fallidos = capturador.frames_fallidos]_vars

\* after a frame had been read, iniciar was called again and the source did
\* not open, then opened without giving a frame, then did not open: three
\* attempts, three handles released, ErrorCapturaVideo and no handle left
C33_Witness ==
    /\ capturador.ultima.operacion = "iniciar"
    /\ capturador.ultima.fuente = <<"no_abre", "sin_frames", "no_abre">>
    /\ capturador.ultima.excepcion
    /\ capturador.ultima.intentos = 3
    /\ capturador.ultima.liberadas = 3
    /\ capturador.captura = None
    /\ capturador.frames_leidos = 1


\* C34: on a frame in which FaceMesh finds no face, a detector with the cache
\* enabled and a detection stored returns the stored landmarks with
\* rostro_presente true and confidence 0.8 while the frame is among the first
\* max_frames_sin_deteccion (5) of its run of such frames, and returns
\* rostro_presente false and clears the cache on the next one; with nothing
\* stored it returns rostro_presente false and stores nothing, so nothing cached
\* comes back before a frame with a face, which sets the counter of misses to 0
\* and is stored.  Checked under SpecDetector.
C34_CacheDeResultados ==
    [][detector'.metricas.frames_procesados = detector.metricas.frames_procesados + 1 =>
        LET frame == Val(detector'.ultima.frame)
            resultado == Val(detector'.ultima.resultado)
            fallos == detector'.ultima.fallos_seguidos
        IN  /\ (frame.tipo = "sin_rostro" /\ detector.habilitar_cache
                  /\ detector.ultimo_resultado # None) =>
                  IF fallos <= MAX_FRAMES_SIN_DETECCION
                  THEN /\ resultado = ResultadoDetector(TRUE,
                                          Val(detector.ultimo_resultado).puntos,
                                          Some(frame.resolucion), 8)
                       /\ detector'.ultimo_resultado = detector.ultimo_resultado
                  ELSE /\ ~resultado.rostro_presente
                       /\ detector'.ultimo_resultado = None
            /\ (frame.tipo = "sin_rostro" /\ detector.ultimo_resultado = None) =>
                  /\ ~resultado.rostro_presente
                  /\ detector'.ultimo_resultado = None
            /\ frame.tipo = "rostro" =>
                  /\ resultado = ResultadoDetector(TRUE, frame.puntos,
                                                   Some(frame.resolucion), 10)
                  /\ detector'.frames_consecutivos_sin_rostro = 0
                  /\ detector.habilitar_cache =>
                        detector'.ultimo_resultado = Some(resultado)
            /\ detector'.ultimo_resultado # None =>
                  /\ detector'.frames_consecutivos_sin_rostro = fallos
                  /\ fallos <= MAX_FRAMES_SIN_DETECCION
     ]_vars

\* one face, then five frames without a face answered from the cache, then the
\* sixth: no face reported and the cache empty
C34_Witness ==
    /\ detector.habilitar_cache
    /\ detector.ultima.operacion = "procesar_frame"
    /\ detector.ultima.fallos_seguidos = MAX_FRAMES_SIN_DETECCION + 1
    /\ detector.metricas = [frames_procesados |-> 7, frames_con_rostro |-> 6,
                            frames_sin_rostro |-> 1, errores_procesamiento |-> 0]
    /\ Val(detector.ultima.frame).tipo = "sin_rostro"
    /\ ~Val(detector.ultima.resultado).rostro_presente
    /\ detector.ultimo_resultado = None


\* C35: in every reachable state the inter-blink history holds
\* min(100, max(0, blinks counted - 1)) entries and the last-blink timestamp is
\* set exactly when at least one blink has been counted; the attention category
\* returned is alta only when at least four blinks have been counted.  Checked
\* under SpecHistorial.
C35_HistorialYConteo ==
    /\ Len(Historial) =
         -Max(-MAX_HISTORIAL, -Max(0, contador.conteo_parpadeos_total - 1))
    /\ contador.ultimo_parpadeo_timestamp # None <=> contador.conteo_parpadeos_total > 0
    /\ (salida # None /\ Atencion.categoria = "alta") =>
          contador.conteo_parpadeos_total >= 4

\* the 102nd blink has just been counted: the history stays at 100 entries and
\* attention is alta
C35_Witness ==
    /\ salida # None
    /\ Eventos.parpadeo
    /\ contador.conteo_parpadeos_total = MAX_HISTORIAL + 2
    /\ Len(Historial) = MAX_HISTORIAL
    /\ contador.ultimo_parpadeo_timestamp = Some(Val(salida).timestamp)
    /\ Atencion.categoria = "alta"


\* C36: every entry of the inter-blink history is at least the refractory
\* period of 0.25 s, and so never negative, also when timestamps repeat or go
\* back.  Checked under SpecDesorden.
C36_IntervalosRefractarios ==
    \A i \in 1..Len(Historial) : Historial[i] >= TIEMPO_REFRACTARIO_PARPADEO

\* a second blink exactly 0.25 s after the first has been stored, and then a
\* closure of blink length ends at a timestamp below that of the last blink:
\* it is not counted and nothing is stored
C36_Witness ==
    /\ salida # None
    /\ Historial = <<TIEMPO_REFRACTARIO_PARPADEO>>
    /\ contador.conteo_parpadeos_total = 2
    /\ traza.estado_previo = "cerrado"
    /\ contador.estado_ojos.estado = "abierto"
    /\ EnRangoParpadeo(traza.duracion_previa)
    /\ Val(salida).timestamp < Val(contador.ultimo_parpadeo_timestamp)
    /\ ~Eventos.parpadeo


\* C37: a call that takes the eye state out of desconocido reports neither a
\* blink nor a microsleep and leaves the duration of the new state at the dt of
\* the call; and a microsleep is reported only when the closed frames that
\* follow one another without a frame lacking a reading in between add up to
\* 1.0 s, so that a closed run of 1.0 s or more in total, split by such a frame
\* into parts shorter than 1.0 s, reports none.  Checked under SpecCorridas.
C37_CorridaInterrumpida ==
    [][llamadas' = llamadas + 1 =>
        /\ (contador.estado_ojos.estado = "desconocido"
              /\ contador'.estado_ojos.estado # "desconocido") =>
              /\ ~Eventos'.parpadeo
              /\ ~Eventos'.microsueno
              /\ contador'.estado_ojos.duracion_estado = Val(traza'.dt)
        /\ Eventos'.microsueno =>
              /\ muestras.clase = "cerrado"
              /\ muestras.corrida >= DUR_MIN_MICROSUENO
     ]_vars

\* the eyes open after two closed parts of 0.5 s each with one frame without a
\* reading in between: 1.0 s closed in total, nothing reported
C37_Witness ==
    /\ salida # None
    /\ traza.estado_previo = "cerrado"
    /\ contador.estado_ojos.estado = "abierto"
    /\ muestras.total >= DUR_MIN_MICROSUENO
    /\ muestras.total > muestras.corrida
    /\ muestras.corrida = 10
    /\ ~Eventos.microsueno
    /\ ~Eventos.parpadeo
    /\ contador.conteo_microsuenos_total = 0


\* C38: on a call that finds the eye state closed and leaves it closed the
\* whole difference between its timestamp and that of the call before is added
\* to the closed duration, however large it is; and the call that reopens the
\* eyes after a closed duration of 1.0 s or more reports a microsleep, so that
\* two closed frames 1.0 s apart are enough for one.  Checked under
\* SpecCorridas, whose timestamps never go back.
C38_DtSinTope ==
    [][llamadas' = llamadas + 1 =>
        /\ (contador.estado_ojos.estado = "cerrado"
              /\ contador'.estado_ojos.estado = "cerrado") =>
              contador'.estado_ojos.duracion_estado =
                 contador.estado_ojos.duracion_estado
                   + (Val(salida').timestamp - Val(contador.ultimo_timestamp))
        /\ (contador.estado_ojos.estado = "cerrado"
              /\ contador'.estado_ojos.estado = "abierto"
              /\ muestras.corrida >= DUR_MIN_MICROSUENO) =>
              /\ Eventos'.microsueno
              /\ contador'.conteo_microsuenos_total =
                   contador.conteo_microsuenos_total + 1
     ]_vars

\* the eyes open after a closed run of two frames, the second 1.0 s after the
\* first: a microsleep is reported
C38_Witness ==
    /\ salida # None
    /\ traza.estado_previo = "cerrado"
    /\ contador.estado_ojos.estado = "abierto"
    /\ muestras.frames = 2
    /\ muestras.pausa = 20
    /\ muestras.corrida = 25
    /\ Eventos.microsueno
    /\ contador.conteo_microsuenos_total = 1


\* C39: after every call of actualizar the stored last timestamp is the
\* timestamp of that call, lower than an earlier one or not; the time the call
\* adds to an eye state that stays the same is the difference to the timestamp
\* of the call before, 0 if that difference is negative, so that the time
\* added up over a run can exceed the difference between the largest and the
\* smallest timestamp of the run.  Checked under SpecDesorden.
C39_ReferenciaRetrocede ==
    [][llamadas' = llamadas + 1 =>
        /\ contador'.ultimo_timestamp = traza'.timestamp
        /\ traza.timestamp # None =>
              /\ contador.ultimo_timestamp = traza.timestamp
              /\ contador'.estado_ojos.estado = contador.estado_ojos.estado =>
                    contador'.estado_ojos.duracion_estado =
                       contador.estado_ojos.duracion_estado
                         + Max(0, Val(traza'.timestamp) - Val(traza.timestamp))
     ]_vars

\* the timestamps went back once and forward again: the time added up is
\* more than the span of the timestamps, and the stored timestamp is below the
\* largest one seen
C39_Witness ==
    /\ salida # None
    /\ muestras.suma_dt > Val(muestras.ts_max) - Val(muestras.ts_min)
    /\ Val(contador.ultimo_timestamp) < Val(muestras.ts_max)
    /\ Val(traza.dt) > 0
    /\ contador.estado_ojos.duracion_estado > Val(muestras.ts_max) - Val(muestras.ts_min)


\* C40: a call whose mouth channel is not valid with a MAR below 0.6 (the
\* mouth is open, or there is no mouth reading) reports no yawn and leaves the
\* yawn counter as it was, however long the mouth has been open.  Checked
\* under SpecBoca.
C40_BostezoSoloAlCerrar ==
    [][LET boca == Val(traza'.medidas).medidas_boca
           cierra == /\ boca.valido
                     /\ boca.mar # None
                     /\ Val(boca.mar) < UMBRAL_MAR_BOSTEZO
       IN  ~cierra =>
              /\ ~Eventos'.bostezo
              /\ contador'.conteo_bostezos_total = contador.conteo_bostezos_total]_vars

\* the mouth has been open for 1.0 s or more and the frame that followed
\* brought no mouth reading: no yawn so far
C40_Witness ==
    /\ salida # None
    /\ ~Val(traza.medidas).medidas_boca.valido
    /\ contador.boca_abierta
    /\ contador.tiempo_boca_abierta >= DUR_MIN_BOSTEZO
    /\ ~Eventos.bostezo
    /\ contador.conteo_bostezos_total = 0
    /\ traza.vistos.bostezo = 0

=============================================================================
